---- MODULE Spec2Model ----
(***************************************************************************)
(* Vaulta voice agent: the turn pipeline of apps/api/app.                  *)
(*                                                                         *)
(*   api/vapi_routes.py        chat_completions, _process_auth_attempt,    *)
(*                             _run_agent                                  *)
(*   agents/graph.py           the node graph and its conditional edges    *)
(*   agents/nodes/*.py         intent_router, auth_gate, card_flow,        *)
(*                             account_flow, stub_flows, confirmation,     *)
(*                             greeting_handler                            *)
(*   services/session_manager  the in-memory session store and its sweep   *)
(*                                                                         *)
(* A turn is one request: chat_completions runs it from get_or_create to   *)
(* the final update_session.  Turns are processed one at a time and the    *)
(* store operations (sweep, reset) and the clock run between them.  The    *)
(* specifications SpecAuth, SpecRoute and SpecConfirm differ in the        *)
(* requests the callers send.                                              *)
(***************************************************************************)
EXTENDS Integers, Sequences, FiniteSets, TLC

(***************************************************************************)
(* Program constants                                                       *)
(***************************************************************************)
MAX_AUTH_ATTEMPTS == 3
MAX_HISTORY_MESSAGES == 10
RestoreWindow == 4

(***************************************************************************)
(* Bounds of the model                                                     *)
(***************************************************************************)
\* the clock runs from 0 to MaxTime
MaxTime == 1
\* session_timeout, in clock ticks
SessionTimeout == 0
\* stored history lengths are counted up to HistCap and saturate there
HistCap == 11
\* requests suspended in verify_identity at the same time
MaxInflight == 2
\* calls of update_session with increment_auth_attempts=True per session
MaxIncrements == 1

None == "none"
SessionIds == {"s1", "s2"}
\* the session the conversations of the dialogue specifications run on
Callers == {"s1"}

Flows ==
    {"card_issues", "account_servicing", "account_opening",
     "digital_support", "transfers", "account_closure"}
SensitiveFlows == {"card_issues", "account_servicing"}

(***************************************************************************)
(* Credentials.  verify_identity accepts the demo customer of              *)
(* MOCK_CUSTOMERS, id 1111 with PIN 2222, without asking the database, and *)
(* the one row of the customers table, id 2222 with PIN 3333; every other  *)
(* pair of the sample is unknown to it.                                    *)
(***************************************************************************)
Numbers == {"1111", "2222", "3333"}
MaybeNumber == Numbers \cup {None}

verify_identity(customer_id, pin) ==
    \/ customer_id = "1111" /\ pin = "2222"
    \/ customer_id = "2222" /\ pin = "3333"

(***************************************************************************)
(* Utterances.  The code reads an utterance only through substring and     *)
(* regex tests; a text is the record of the outcomes of those tests on the *)
(* sanitized input:                                                        *)
(*   st      the first small-talk regex of route_intent that matches       *)
(*   kw      the first keyword category of route_intent that matches       *)
(*   digits  re.search(r'\d') finds a digit                                *)
(*   topic   one of topic_change_keywords occurs                           *)
(*   yes,no  an affirmative / a negative word of handle_confirmation occurs*)
(*   card    card_flow's issue keywords: "block" (lost, stolen, missing,   *)
(*           block), else "info" (declined, atm, ...), else none           *)
(*   which   "debit" or "credit" occurs (debit is tested first)            *)
(*   labels  both "customer id" and "pin" occur                            *)
(***************************************************************************)
Txt(st, kw, digits, topic, yes, no, card, which, labels) ==
    [st |-> st, kw |-> kw, digits |-> digits, topic |-> topic, yes |-> yes,
     no |-> no, card |-> card, which |-> which, labels |-> labels]

\* "hello"
T_hello == Txt("greeting", None, FALSE, FALSE, FALSE, FALSE, None, None, FALSE)
\* "what can you do"
T_help == Txt("help", None, FALSE, FALSE, FALSE, FALSE, None, None, FALSE)
\* "no thanks"
T_no_thanks == Txt("thanks", None, FALSE, FALSE, FALSE, TRUE, None, None, FALSE)
\* "hello, what's my balance"
T_hello_balance ==
    Txt("greeting", "account_servicing", FALSE, FALSE, FALSE, FALSE, None, None, FALSE)
\* "hello 42" (a number of fewer than four digits is not redacted)
T_hello_42 == Txt("greeting", None, TRUE, FALSE, FALSE, FALSE, None, None, FALSE)
\* "hi, my customer id is **** and pin ****"
T_hello_labels == Txt("greeting", None, FALSE, FALSE, FALSE, FALSE, None, None, TRUE)
\* "i lost my card"
T_lost == Txt(None, "card_issues", FALSE, FALSE, FALSE, FALSE, "block", None, FALSE)
\* "yes block my lost debit card"
T_yes_lost_debit ==
    Txt(None, "card_issues", FALSE, FALSE, TRUE, FALSE, "block", "debit", FALSE)
\* "the credit one"
T_credit == Txt(None, None, FALSE, FALSE, FALSE, FALSE, None, "credit", FALSE)
\* "my card was declined"
T_declined == Txt(None, "card_issues", FALSE, FALSE, FALSE, FALSE, "info", None, FALSE)
\* "yes"
T_yes == Txt(None, None, FALSE, FALSE, TRUE, FALSE, None, None, FALSE)
\* "cancel"
T_no == Txt(None, None, FALSE, FALSE, FALSE, TRUE, None, None, FALSE)
\* "yes, cancel it"
T_yes_no == Txt(None, None, FALSE, FALSE, TRUE, TRUE, None, None, FALSE)
\* "maybe"
T_maybe == Txt(None, None, FALSE, FALSE, FALSE, FALSE, None, None, FALSE)
\* "wait" (a topic-change keyword and a negative word)
T_wait == Txt(None, None, FALSE, TRUE, FALSE, TRUE, None, None, FALSE)
\* "what is my balance"
T_balance ==
    Txt(None, "account_servicing", FALSE, FALSE, FALSE, FALSE, None, None, FALSE)
\* "actually i want to transfer money"
T_actually_transfer ==
    Txt(None, "transfers", FALSE, TRUE, FALSE, FALSE, None, None, FALSE)
\* "actually, something else"
T_something_else == Txt(None, None, FALSE, TRUE, FALSE, FALSE, None, None, FALSE)
\* "my customer id is **** and pin ****" (a credential utterance, redacted)
T_labels == Txt(None, None, FALSE, FALSE, FALSE, FALSE, None, None, TRUE)
\* "id 42" (short ids are not redacted)
T_digits == Txt(None, None, TRUE, FALSE, FALSE, FALSE, None, None, FALSE)

\* texts of utterances that carry no credential
PlainTexts ==
    {T_hello, T_no_thanks, T_lost, T_yes_lost_debit, T_credit,
     T_yes, T_no, T_maybe, T_wait, T_balance, T_actually_transfer}
\* texts of utterances that carry an id, a PIN or both
CredTexts == {T_labels, T_digits}
Texts == PlainTexts \cup CredTexts
\* last_intent_message = None
NoText == Txt("unset", None, FALSE, FALSE, FALSE, FALSE, None, None, FALSE)

(***************************************************************************)
(* Messages.  A message list is kept as its length, the kind of its last   *)
(* assistant message and the kind of its last message.  The kinds are the  *)
(* reply texts of the nodes, grouped by the substring tests the code makes *)
(* on them.                                                                *)
(***************************************************************************)
ReplyKinds ==
    {"smalltalk", "help", "locked", "authfail", "reqauth", "reqpin", "reqid",
     "askissue", "askwhich", "reask", "confirmprompt", "cardinfo",
     "blocked", "done", "cancelled", "reprompt",
     "acct", "acctcards", "accthuman", "stub"}

\* "customer id" in content.lower() and "pin" in content.lower()
ContainsIdAndPin(kind) == kind \in {"authfail", "reqauth"}
\* "debit card ending" in msg or "credit card ending" in msg
ContainsCardEnding(kind) == kind \in {"askwhich", "confirmprompt", "acctcards"}
\* "lost or stolen card" in msg
ContainsLostOrStolen(kind) == kind \in {"askissue", "help"}

\* what card_flow can tell about an assistant message
Context(kind) ==
    IF ContainsCardEnding(kind) THEN "card_ending"
    ELSE IF ContainsLostOrStolen(kind) THEN "lost_or_stolen"
    ELSE "other"

Cap(n) == IF n > HistCap THEN HistCap ELSE n

\* a message list: its length and the context of its last assistant message
EmptyMessages == [len |-> 0, lastAI |-> None]
\* history + [HumanMessage(content=sanitized_input)]
AddHuman(m) == [len |-> Cap(m.len + 1), lastAI |-> m.lastAI]
\* the messages channel is Annotated[List, operator.add]: a node that returns
\* {"messages": [response]} appends the response ...
AddReply(m, kind) == [len |-> Cap(m.len + 1), lastAI |-> Context(kind)]
\* ... and a node that returns the state it was given adds the whole list to
\* itself
AddSelf(m) == [len |-> Cap(m.len + m.len), lastAI |-> m.lastAI]
\* history[-MAX_HISTORY_MESSAGES:]
Truncate(m) ==
    IF m.len > MAX_HISTORY_MESSAGES
    THEN [len |-> MAX_HISTORY_MESSAGES, lastAI |-> m.lastAI]
    ELSE m

(***************************************************************************)
(* services/session_manager.py                                             *)
(***************************************************************************)
NoAction == [type |-> None, card_id |-> None]
BlockCard(card_id) == [type |-> "block_card", card_id |-> card_id]
PendingActions == {NoAction, BlockCard("CARD_001"), BlockCard("CARD_999")}

\* SessionState(session_id=session_id) at time t
SessionState(t) ==
    [customer_id |-> None,
     verified |-> FALSE,
     last_activity |-> t,
     auth_attempts |-> 0,
     conversation_history |-> EmptyMessages,
     last_intent_message |-> NoText,
     pending_customer_id |-> None,
     current_flow |-> None,
     original_intent |-> None,
     pending_action |-> NoAction,
     awaiting_confirmation |-> FALSE,
     requires_human |-> FALSE,
     locked |-> FALSE]

\* a session id the store has no entry for
Absent == [SessionState(0) EXCEPT !.customer_id = "absent"]

Present(ss, sid) == ss[sid] # Absent

get_or_create_session(ss, sid, t) ==
    IF ~Present(ss, sid)
    THEN [ss EXCEPT ![sid] = SessionState(t)]
    ELSE [ss EXCEPT ![sid].last_activity = t]

\* update_session(session_id, **upd): upd holds the arguments that were
\* passed, every other field is _UNSET and increment_auth_attempts is False
Increments(upd) ==
    "increment_auth_attempts" \in DOMAIN upd /\ upd.increment_auth_attempts

\* variants: one that writes None to the fields left out, one that creates
\* the session it does not find
update_session_clears_omitted(ss, sid, upd, t) ==
    IF Present(ss, sid)
    THEN [ss EXCEPT ![sid] =
            [f \in DOMAIN ss[sid] |->
                IF f = "last_activity" THEN t
                ELSE IF f = "auth_attempts" /\ Increments(upd) THEN ss[sid][f] + 1
                ELSE IF f \in DOMAIN upd THEN upd[f]
                ELSE IF f = "customer_id" THEN None
                ELSE ss[sid][f]]]
    ELSE ss

update_session_creates(ss, sid, upd, t) ==
    [ss EXCEPT ![sid] =
        [f \in DOMAIN SessionState(t) |->
            IF f \in DOMAIN upd THEN upd[f] ELSE SessionState(t)[f]]]

update_session(ss, sid, upd, t) ==
    IF Present(ss, sid)
    THEN [ss EXCEPT ![sid] =
            [f \in DOMAIN ss[sid] |->
                IF f = "last_activity" THEN t
                ELSE IF f = "auth_attempts" /\ Increments(upd) THEN ss[sid][f] + 1
                ELSE IF f \in DOMAIN upd THEN upd[f]
                ELSE ss[sid][f]]]
    ELSE ss

\* get_session(session_id): the session, or None
get_session(ss, sid) == IF Present(ss, sid) THEN ss[sid] ELSE None

reset_session(ss, sid) ==
    IF Present(ss, sid) THEN [ss EXCEPT ![sid] = Absent] ELSE ss

\* a variant that removes a session at the timeout, not past it
ExpiredAtTimeout(ss, t) ==
    {sid \in SessionIds :
        Present(ss, sid) /\ t - ss[sid].last_activity >= SessionTimeout}

Expired(ss, t) ==
    {sid \in SessionIds :
        Present(ss, sid) /\ t - ss[sid].last_activity > SessionTimeout}

cleanup_expired_sessions(ss, t) ==
    [sid \in SessionIds |-> IF sid \in Expired(ss, t) THEN Absent ELSE ss[sid]]

(***************************************************************************)
(* api/vapi_routes.py: _process_auth_attempt                               *)
(* customer_id, pin are what extract_credentials(raw_text) returned.       *)
(* The result is the session after the call, the auth outcome and the      *)
(* arguments of the verify_identity call (called = FALSE when there was    *)
(* none).                                                                  *)
(***************************************************************************)
NoRemaining == 0 - 1

AuthOutcome(session) ==
    [attempted |-> FALSE, success |-> None, remaining_attempts |-> NoRemaining,
     locked |-> session.locked, needs_customer_id |-> FALSE, needs_pin |-> FALSE]

NoCall == [called |-> FALSE, customer_id |-> None, pin |-> None]
\* a variant that passes the arguments of verify_identity in the other order
CallSwapped(customer_id, pin) ==
    [called |-> TRUE, customer_id |-> pin, pin |-> customer_id]

Call(customer_id, pin) == [called |-> TRUE, customer_id |-> customer_id, pin |-> pin]

Max(a, b) == IF a > b THEN a ELSE b

\* variants of the lockout check: one that never fires, one that fires only
\* past the maximum
LockoutCheckNever(session) == FALSE

LockoutCheckPastMax(session) ==
    session.auth_attempts > MAX_AUTH_ATTEMPTS

\* the lockout check that precedes the verifier call
LockoutCheck(session) ==
    session.locked \/ session.auth_attempts >= MAX_AUTH_ATTEMPTS

\* a variant of the accepting branch that keeps the attempts counted so far
AuthAcceptedKeepsAttempts(session, auth, customer_id) ==
    [session |-> [session EXCEPT !.verified = TRUE,
                                 !.customer_id = customer_id,
                                 !.pending_customer_id = None],
     auth |-> [auth EXCEPT !.success = "true"]]

\* the two branches after "is_verified = await verify_identity(customer_id, pin)"
AuthAccepted(session, auth, customer_id) ==
    [session |-> [session EXCEPT !.verified = TRUE,
                                 !.customer_id = customer_id,
                                 !.auth_attempts = 0,
                                 !.pending_customer_id = None],
     auth |-> [auth EXCEPT !.success = "true"]]

AuthRejected(session, auth) ==
    LET attempts == session.auth_attempts + 1
        remaining == Max(0, MAX_AUTH_ATTEMPTS - attempts)
    IN  [session |-> [session EXCEPT !.auth_attempts = attempts,
                                     !.locked = IF remaining = 0 THEN TRUE ELSE @],
         auth |-> [auth EXCEPT !.success = "false",
                               !.remaining_attempts = remaining,
                               !.locked = IF remaining = 0 THEN TRUE ELSE @]]

\* from the return of verify_identity to the return of _process_auth_attempt;
\* session is the session object as it is when verify_identity returns
AfterVerifier(session, tried, customer_id, pin) ==
    LET r == IF verify_identity(customer_id, pin)
             THEN AuthAccepted(session, tried, customer_id)
             ELSE AuthRejected(session, tried)
    IN  [session |-> r.session, auth |-> r.auth, call |-> Call(customer_id, pin)]

\* a variant that counts every submission, complete or not, as a rejected
\* attempt
process_auth_attempt_counts_partial(session, cid0, pin0) ==
    [session |-> [session EXCEPT !.auth_attempts = @ + 1],
     auth |-> [AuthOutcome(session) EXCEPT !.attempted = TRUE, !.success = "false"],
     call |-> NoCall]

process_auth_attempt(session, cid0, pin0) ==
    LET auth == AuthOutcome(session)
        \* a solo id while an id is pending is taken as the PIN
        swap == session.pending_customer_id # None /\ cid0 # None /\ pin0 = None
        cid1 == IF swap THEN session.pending_customer_id ELSE cid0
        pin1 == IF swap THEN cid0 ELSE pin0
        \* a solo PIN is completed by the pending id
        cid2 == IF pin1 # None /\ cid1 = None /\ session.pending_customer_id # None
                THEN session.pending_customer_id ELSE cid1
    IN  IF session.verified
        THEN [session |-> session, auth |-> auth, call |-> NoCall]
        ELSE IF cid1 # None /\ pin1 = None
        THEN [session |-> [session EXCEPT !.pending_customer_id = cid1],
              auth |-> [auth EXCEPT !.needs_pin = TRUE],
              call |-> NoCall]
        ELSE IF pin1 # None /\ cid2 = None
        THEN [session |-> session,
              auth |-> [auth EXCEPT !.needs_customer_id = TRUE],
              call |-> NoCall]
        ELSE IF ~(cid2 # None /\ pin1 # None)
        THEN [session |-> session, auth |-> auth, call |-> NoCall]
        ELSE LET tried == [auth EXCEPT !.attempted = TRUE]
             IN  IF LockoutCheck(session)
                 THEN [session |-> [session EXCEPT !.locked = TRUE],
                       auth |-> [tried EXCEPT !.locked = TRUE, !.success = "false"],
                       call |-> NoCall]
                 ELSE AfterVerifier(session, tried, cid2, pin1)

\* auth_only = bool(attempted or needs_pin or needs_customer_id)
AuthOnly(auth) == auth.attempted \/ auth.needs_pin \/ auth.needs_customer_id

(***************************************************************************)
(* agents/state.py and the turn state _run_agent builds.  The metadata bag *)
(* is flattened into the record.  input is the text of the latest human    *)
(* message.  The last seven fields record what the nodes did in the turn:  *)
(* the reply appended last (none while the last message is the human one); *)
(* the number of replies the nodes appended;                               *)
(* the nodes run, in order; whether the classifier was called; the card    *)
(* block_card was called with; whether the pending action was cancelled;   *)
(* the exception that ended the run.                                       *)
(***************************************************************************)
create_initial_state ==
    [messages |-> EmptyMessages,
     verified |-> FALSE,
     current_flow |-> None,
     pending_action |-> NoAction,
     requires_human |-> FALSE,
     auth |-> AuthOutcome([locked |-> FALSE]),
     awaiting_confirmation |-> FALSE,
     asked_for_confirmation |-> FALSE,
     lock_flow |-> FALSE,
     force_reroute |-> FALSE,
     small_talk |-> None,
     input |-> NoText,
     reply |-> None,
     replies |-> 0,
     path |-> << >>,
     llm_called |-> FALSE,
     executed |-> None,
     cancelled |-> FALSE,
     raised |-> None]

\* a node returned the state it was given, or {**state, ...} without "messages"
Same(state, node) ==
    [state EXCEPT !.messages = AddSelf(@), !.path = Append(@, node)]
\* a node returned {**state, "messages": [response], ...}
Reply(state, node, kind) ==
    [state EXCEPT !.messages = AddReply(@, kind), !.reply = kind,
                  !.replies = @ + 1,
                  !.path = Append(@, node)]
\* a node raised
Raise(state, node, what) ==
    [state EXCEPT !.path = Append(@, node), !.raised = what]

(***************************************************************************)
(* agents/nodes/intent_router.py                                           *)
(***************************************************************************)
\* not has_intent_keywords and not has_digits, and one of the regexes matches
IsSmallTalk(text) == text.kw = None /\ ~text.digits /\ text.st # None

\* a variant in which a keyword in the utterance overrides the sticky flow
ReclassifiesOnKeyword(state) ==
    /\ ~IsSmallTalk(state.input)
    /\ ~(state.current_flow # None /\ ~state.force_reroute /\ ~state.input.topic
            /\ state.input.kw = None)
    /\ ~(state.lock_flow \/ (state.auth.attempted /\ state.current_flow # None))

\* the sticky-flow test and the lock_flow test both fall through
Reclassifies(state) ==
    /\ ~IsSmallTalk(state.input)
    /\ ~(state.current_flow # None /\ ~state.force_reroute /\ ~state.input.topic)
    /\ ~(state.lock_flow \/ (state.auth.attempted /\ state.current_flow # None))

\* the classifier is asked only when no keyword category matches
ConsultsLlm(state) == Reclassifies(state) /\ state.input.kw = None

\* The keyword chain of route_intent: kws is the set of categories with a
\* keyword that occurs in the utterance.  A variant that tests
\* account_servicing before card_issues comes first.
keyword_flow_account_first(kws) ==
    IF "account_servicing" \in kws THEN "account_servicing"
    ELSE IF "card_issues" \in kws THEN "card_issues"
    ELSE IF "account_opening" \in kws THEN "account_opening"
    ELSE IF "digital_support" \in kws THEN "digital_support"
    ELSE IF "transfers" \in kws THEN "transfers"
    ELSE IF "account_closure" \in kws THEN "account_closure"
    ELSE None

keyword_flow(kws) ==
    IF "card_issues" \in kws THEN "card_issues"
    ELSE IF "account_servicing" \in kws THEN "account_servicing"
    ELSE IF "account_opening" \in kws THEN "account_opening"
    ELSE IF "digital_support" \in kws THEN "digital_support"
    ELSE IF "transfers" \in kws THEN "transfers"
    ELSE IF "account_closure" \in kws THEN "account_closure"
    ELSE None

\* The classifier's answer is read through substring tests as well: labels is
\* the set of category names that occur in response.content.lower(),
\* whatever else the text holds.
parse_response(labels) ==
    IF "card_issues" \in labels THEN "card_issues"
    ELSE IF "account_servicing" \in labels THEN "account_servicing"
    ELSE IF "account_opening" \in labels THEN "account_opening"
    ELSE IF "digital_support" \in labels THEN "digital_support"
    ELSE IF "transfers" \in labels THEN "transfers"
    ELSE IF "account_closure" \in labels THEN "account_closure"
    ELSE None

\* the classifying branch of route_intent: the keyword chain, and the
\* classifier when no keyword matches
classify(kws, labels) ==
    IF keyword_flow(kws) # None
    THEN [flow |-> keyword_flow(kws), llm_called |-> FALSE]
    ELSE [flow |-> parse_response(labels), llm_called |-> TRUE]

\* the label parsed from the classifier's answer, or its failure
LlmAnswers == {"card_issues", "account_opening", None, "error"}

route_intent(state, llm) ==
    IF IsSmallTalk(state.input)
    THEN [Same(state, "intent_router") EXCEPT
            !.current_flow = None, !.small_talk = state.input.st]
    ELSE IF ~Reclassifies(state)
    THEN Same(state, "intent_router")
    ELSE IF state.input.kw # None
    THEN [Same(state, "intent_router") EXCEPT !.current_flow = state.input.kw]
    ELSE IF llm = "error"
    THEN [Raise(state, "intent_router", "llm") EXCEPT !.llm_called = TRUE]
    ELSE [Same(state, "intent_router") EXCEPT
            !.current_flow = llm, !.llm_called = TRUE]

(***************************************************************************)
(* agents/nodes/greeting_handler.py                                        *)
(***************************************************************************)
\* a variant that drops the pending action
handle_greeting_cancels(state) ==
    [Reply(state, "greeting", IF state.small_talk = "help" THEN "help" ELSE "smalltalk")
        EXCEPT !.pending_action = NoAction, !.awaiting_confirmation = FALSE,
               !.cancelled = TRUE]

handle_greeting(state) ==
    Reply(state, "greeting", IF state.small_talk = "help" THEN "help" ELSE "smalltalk")

(***************************************************************************)
(* agents/nodes/auth_gate.py                                               *)
(***************************************************************************)
AuthJustFailed(auth) == auth.attempted /\ auth.success = "false"

\* a variant whose lock reply does not hand over to a human
check_authentication_no_handover(state) ==
    IF state.verified
    THEN Same(state, "auth_gate")
    ELSE IF state.auth.locked
    THEN Reply(state, "auth_gate", "locked")
    ELSE IF AuthJustFailed(state.auth)
    THEN Reply(state, "auth_gate", "authfail")
    ELSE Same(state, "auth_gate")

check_authentication(state) ==
    IF state.verified
    THEN Same(state, "auth_gate")
    ELSE IF state.auth.locked
    THEN [Reply(state, "auth_gate", "locked") EXCEPT !.requires_human = TRUE]
    ELSE IF AuthJustFailed(state.auth)
    THEN Reply(state, "auth_gate", "authfail")
    ELSE Same(state, "auth_gate")

\* the prompt of request_verification and of the handlers' inline request
AuthPrompt(auth) ==
    IF auth.needs_pin THEN "reqpin"
    ELSE IF auth.needs_customer_id THEN "reqid"
    ELSE "reqauth"

request_verification(state) ==
    Reply(state, "request_auth", AuthPrompt(state.auth))

(***************************************************************************)
(* agents/nodes/card_flow.py                                               *)
(***************************************************************************)
\* the reply of a sensitive handler entered with verified = False
InlineAuthReply(auth) ==
    IF AuthJustFailed(auth) THEN "authfail" ELSE AuthPrompt(auth)

\* a variant that stores the pending action and does not await the reply
block_specific_card_not_awaiting(state, card_id) ==
    [Reply(state, "card_flow", "confirmprompt") EXCEPT
        !.pending_action = BlockCard(card_id),
        !.asked_for_confirmation = TRUE]

block_specific_card(state, card_id) ==
    [Reply(state, "card_flow", "confirmprompt") EXCEPT
        !.pending_action = BlockCard(card_id),
        !.asked_for_confirmation = TRUE,
        !.awaiting_confirmation = TRUE]

\* "debit" in latest_input is tested before "credit" in latest_input
SelectedCard(text) ==
    IF text.which = "debit" THEN "CARD_001"
    ELSE IF text.which = "credit" THEN "CARD_999"
    ELSE None

handle_lost_card(state) ==
    IF SelectedCard(state.input) # None
    THEN block_specific_card(state, SelectedCard(state.input))
    ELSE Reply(state, "card_flow", "askwhich")

handle_card_flow(state) ==
    LET text == state.input
        last_assistant_msg == state.messages.lastAI
    IN  IF ~state.verified
        THEN Reply(state, "card_flow", InlineAuthReply(state.auth))
        ELSE IF state.pending_action # NoAction /\ state.awaiting_confirmation
        THEN Same(state, "card_flow")
        ELSE IF last_assistant_msg = "card_ending"
        THEN IF SelectedCard(text) # None
             THEN block_specific_card(state, SelectedCard(text))
             ELSE Reply(state, "card_flow", "reask")
        ELSE IF last_assistant_msg = "lost_or_stolen"
        THEN IF text.card = "block" THEN handle_lost_card(state)
             ELSE IF text.card = "info" THEN Reply(state, "card_flow", "cardinfo")
             ELSE Reply(state, "card_flow", "askissue")
        ELSE IF text.card = "block" THEN handle_lost_card(state)
        ELSE IF text.card = "info" THEN Reply(state, "card_flow", "cardinfo")
        ELSE Reply(state, "card_flow", "askissue")

(***************************************************************************)
(* agents/nodes/account_flow.py                                            *)
(* session_customer_id is session_manager.get_session(...).customer_id     *)
(* (none when the store has no session).  outcome stands for the branch    *)
(* the keywords select and the result of its banking call: an answer, an   *)
(* answer that lists the cards, a transfer to a human, or a failed call.   *)
(***************************************************************************)
AccountOutcomes == {"acct", "acctcards", "accthuman", "error"}

handle_account_flow(state, session_customer_id, outcome) ==
    IF ~state.verified
    THEN Reply(state, "account_flow", InlineAuthReply(state.auth))
    ELSE IF session_customer_id = None
    THEN [Reply(state, "account_flow", "accthuman") EXCEPT !.requires_human = TRUE]
    ELSE IF outcome = "error"
    THEN Raise(state, "account_flow", "banking")
    ELSE IF outcome = "accthuman"
    THEN [Reply(state, "account_flow", "accthuman") EXCEPT !.requires_human = TRUE]
    ELSE Reply(state, "account_flow", outcome)

(***************************************************************************)
(* agents/nodes/stub_flows.py                                              *)
(***************************************************************************)
handle_stub_flow(state) ==
    IF state.small_talk # None
    THEN [Reply(state, "stub_flow", IF state.small_talk = "help" THEN "help" ELSE "smalltalk")
            EXCEPT !.small_talk = None]
    ELSE Reply(state, "stub_flow", "stub")

(***************************************************************************)
(* agents/nodes/confirmation.py                                            *)
(* block is the outcome of the block_card call: "ok" or "error".           *)
(***************************************************************************)
BlockOutcomes == {"ok", "error"}

Affirmative(text) == text.yes
Negative(text) == text.no

\* a variant that tests the negative words before the affirmative ones
handle_confirmation_negative_first(state, block) ==
    IF state.pending_action = NoAction
    THEN Same(state, "confirmation")
    ELSE IF ~state.verified
    THEN Raise(state, "confirmation", "VerificationRequired")
    ELSE IF Negative(state.input)
    THEN [Reply(state, "confirmation", "cancelled") EXCEPT
            !.cancelled = TRUE,
            !.pending_action = NoAction,
            !.awaiting_confirmation = FALSE,
            !.asked_for_confirmation = FALSE]
    ELSE IF Affirmative(state.input)
    THEN IF state.pending_action.type = "block_card" /\ block = "error"
         THEN [Raise(state, "confirmation", "banking") EXCEPT
                 !.executed = state.pending_action.card_id]
         ELSE [Reply(state, "confirmation",
                     IF state.pending_action.type = "block_card" THEN "blocked" ELSE "done")
                 EXCEPT !.executed = state.pending_action.card_id,
                        !.pending_action = NoAction,
                        !.awaiting_confirmation = FALSE,
                        !.asked_for_confirmation = FALSE]
    ELSE [Reply(state, "confirmation", "reprompt") EXCEPT
            !.awaiting_confirmation = TRUE,
            !.asked_for_confirmation = FALSE]

\* a variant without the test of verified
handle_confirmation_unchecked(state, block) ==
    IF state.pending_action = NoAction
    THEN Same(state, "confirmation")
    ELSE IF Affirmative(state.input)
    THEN IF state.pending_action.type = "block_card" /\ block = "error"
         THEN [Raise(state, "confirmation", "banking") EXCEPT
                 !.executed = state.pending_action.card_id]
         ELSE [Reply(state, "confirmation",
                     IF state.pending_action.type = "block_card" THEN "blocked" ELSE "done")
                 EXCEPT !.executed = state.pending_action.card_id,
                        !.pending_action = NoAction,
                        !.awaiting_confirmation = FALSE,
                        !.asked_for_confirmation = FALSE]
    ELSE IF Negative(state.input)
    THEN [Reply(state, "confirmation", "cancelled") EXCEPT
            !.cancelled = TRUE,
            !.pending_action = NoAction,
            !.awaiting_confirmation = FALSE,
            !.asked_for_confirmation = FALSE]
    ELSE [Reply(state, "confirmation", "reprompt") EXCEPT
            !.awaiting_confirmation = TRUE,
            !.asked_for_confirmation = FALSE]

handle_confirmation(state, block) ==
    IF state.pending_action = NoAction
    THEN Same(state, "confirmation")
    ELSE IF ~state.verified
    THEN Raise(state, "confirmation", "VerificationRequired")
    ELSE IF Affirmative(state.input)
    THEN IF state.pending_action.type = "block_card" /\ block = "error"
         THEN [Raise(state, "confirmation", "banking") EXCEPT
                 !.executed = state.pending_action.card_id]
         ELSE [Reply(state, "confirmation",
                     IF state.pending_action.type = "block_card" THEN "blocked" ELSE "done")
                 EXCEPT !.executed = state.pending_action.card_id,
                        !.pending_action = NoAction,
                        !.awaiting_confirmation = FALSE,
                        !.asked_for_confirmation = FALSE]
    ELSE IF Negative(state.input)
    THEN [Reply(state, "confirmation", "cancelled") EXCEPT
            !.cancelled = TRUE,
            !.pending_action = NoAction,
            !.awaiting_confirmation = FALSE,
            !.asked_for_confirmation = FALSE]
    ELSE [Reply(state, "confirmation", "reprompt") EXCEPT
            !.awaiting_confirmation = TRUE,
            !.asked_for_confirmation = FALSE]

(***************************************************************************)
(* agents/graph.py: the conditional edges and the compiled graph           *)
(***************************************************************************)
should_handle_small_talk(state) ==
    IF state.small_talk # None THEN "greeting" ELSE "auth_gate"

\* a variant that asks every unverified turn for credentials
should_request_auth_all(state) ==
    IF state.auth.locked \/ AuthJustFailed(state.auth) THEN "end"
    ELSE IF state.verified THEN "route_by_intent"
    ELSE "request_auth"

\* a variant that lets an unverified turn into the sensitive flows
should_request_auth_open(state) ==
    IF state.auth.locked \/ AuthJustFailed(state.auth) THEN "end"
    ELSE "route_by_intent"

should_request_auth(state) ==
    IF state.auth.locked \/ AuthJustFailed(state.auth) THEN "end"
    ELSE IF state.current_flow \notin SensitiveFlows THEN "route_by_intent"
    ELSE IF state.verified THEN "route_by_intent"
    ELSE "request_auth"

route_to_flow(state) ==
    IF state.current_flow = "card_issues" THEN "card_flow"
    ELSE IF state.current_flow = "account_servicing" THEN "account_flow"
    ELSE "stub_flow"

\* a variant that does not read asked_for_confirmation
should_confirm_at_once(state) ==
    IF /\ state.pending_action # NoAction
       /\ state.pending_action.type \in {"block_card", "close_account"}
       /\ state.awaiting_confirmation
    THEN "confirm"
    ELSE "execute"

should_confirm(state) ==
    IF /\ state.pending_action # NoAction
       /\ state.pending_action.type \in {"block_card", "close_account"}
       /\ ~state.asked_for_confirmation
       /\ state.awaiting_confirmation
    THEN "confirm"
    ELSE "execute"

route_by_intent(state) == Same(state, "route_by_intent")

\* the part of the graph after auth_gate
AfterGate(state, session_customer_id, outcome, block) ==
    LET edge == should_request_auth(state)
    IN  IF edge = "end" THEN state
        ELSE IF edge = "request_auth" THEN request_verification(state)
        ELSE LET routed == route_by_intent(state)
                 flow == route_to_flow(routed)
             IN  IF flow = "card_flow"
                 THEN LET handled == handle_card_flow(routed)
                      IN  IF should_confirm(handled) = "confirm"
                          THEN handle_confirmation(handled, block)
                          ELSE handled
                 ELSE IF flow = "account_flow"
                 THEN handle_account_flow(routed, session_customer_id, outcome)
                 ELSE handle_stub_flow(routed)

\* agent_graph.ainvoke(current_state)
agent_graph(state, llm, session_customer_id, outcome, block) ==
    LET routed == route_intent(state, llm)
    IN  IF routed.raised # None THEN routed
        ELSE IF should_handle_small_talk(routed) = "greeting" THEN handle_greeting(routed)
        ELSE AfterGate(check_authentication(routed), session_customer_id, outcome, block)

(***************************************************************************)
(* api/vapi_routes.py: _run_agent                                          *)
(* The result is the store after the call and the final state of the graph *)
(* run.  When the graph raises, the final update_session calls are not     *)
(* reached.                                                                *)
(***************************************************************************)
\* "if session.original_intent and session.verified and len(history) <= 4"
JustAuthenticated(session, history) ==
    /\ session.original_intent # None
    /\ session.verified
    /\ history.len <= RestoreWindow

BuildState(session, sanitized_input, auth) ==
    LET history == Truncate(session.conversation_history)
        restore == JustAuthenticated(session, history)
    IN  [create_initial_state EXCEPT
            !.messages = AddHuman(history),
            !.input = sanitized_input,
            !.verified = session.verified,
            !.current_flow =
                IF restore THEN session.original_intent ELSE session.current_flow,
            !.pending_action = session.pending_action,
            !.requires_human = session.requires_human,
            !.auth = auth,
            !.awaiting_confirmation = session.awaiting_confirmation,
            !.asked_for_confirmation = FALSE,
            !.lock_flow =
                IF restore THEN TRUE
                ELSE session.awaiting_confirmation
                        \/ session.pending_action # NoAction]

\* the content of result["messages"][-1] has "customer id" and "pin" in it
IsAuthRequest(result) ==
    IF result.reply = None THEN result.input.labels
    ELSE ContainsIdAndPin(result.reply)

\* a variant of the final update that stores requires_human only for the
\* turn that asked for the handover
FoldHandoverOnce(result, session) ==
    [verified |-> result.verified,
     current_flow |-> result.current_flow,
     pending_action |-> result.pending_action,
     awaiting_confirmation |-> result.awaiting_confirmation,
     requires_human |-> result.requires_human /\ result.reply \in {"accthuman"},
     conversation_history |-> result.messages,
     locked |-> session.locked]

\* a variant of the final update that clears locked
FoldUnlocked(result, session) ==
    [verified |-> result.verified,
     current_flow |-> result.current_flow,
     pending_action |-> result.pending_action,
     awaiting_confirmation |-> result.awaiting_confirmation,
     requires_human |-> result.requires_human,
     conversation_history |-> result.messages,
     locked |-> FALSE]

\* the fields of the final update_session call
Fold(result, session) ==
    [verified |-> result.verified,
     current_flow |-> result.current_flow,
     pending_action |-> result.pending_action,
     awaiting_confirmation |-> result.awaiting_confirmation,
     requires_human |-> result.requires_human,
     conversation_history |-> result.messages,
     locked |-> session.locked]

run_agent(ss, sid, sanitized_input, auth, t, llm, outcome, block) ==
    LET ss1 == get_or_create_session(ss, sid, t)
        session == ss1[sid]
        state == BuildState(session, sanitized_input, auth)
        ss2 == IF JustAuthenticated(session, Truncate(session.conversation_history))
               THEN update_session(ss1, sid, [original_intent |-> None], t)
               ELSE ss1
        result == agent_graph(state, llm, ss2[sid].customer_id, outcome, block)
        ss3 == IF IsAuthRequest(result) /\ result.current_flow # None
                    /\ ~ss2[sid].verified
               THEN update_session(ss2, sid, [original_intent |-> result.current_flow], t)
               ELSE ss2
        ss4 == update_session(ss3, sid, Fold(result, ss3[sid]), t)
    IN  [sessions |-> IF result.raised # None THEN ss2 ELSE ss4,
         started |-> ss2,
         state |-> state,
         result |-> result]

(***************************************************************************)
(* api/vapi_routes.py: chat_completions (vapi_call is the same pipeline)   *)
(***************************************************************************)
\* verify_identity asks the database for every id that is not a mock customer
VerifierOutcomes == {"ok", "error"}
VerifierFails(call, db) == call.called /\ call.customer_id # "1111" /\ db = "error"

\* effective_input
EffectiveInput(session, auth, sanitized_input) ==
    IF AuthOnly(auth) /\ session.last_intent_message # NoText
    THEN session.last_intent_message
    ELSE sanitized_input

\* the requests of the model: the sanitized text with what extract_credentials
\* finds in the raw text
NoCredentials == <<None, None>>
CredentialPairs == (MaybeNumber \X MaybeNumber) \ {NoCredentials}
Requests ==
    (PlainTexts \X {NoCredentials}) \cup (CredTexts \X CredentialPairs)

(***************************************************************************)
(* core/voice_utils.py and core/security.py: extract_credentials           *)
(* The raw utterance is a sequence of tokens: a token has a kind and, when *)
(* it is a number, its digits.  The kinds are                              *)
(*   "id"    a label of r'\b(customer id|customer_id|cust id|id)\b'        *)
(*   "pin"   the label "pin"                                               *)
(*   "is", "and", "my"   these words                                       *)
(*   "word"  a word that is none of the above and no number word           *)
(*   "d"     a group of contiguous digits                                  *)
(*   "s"     a number word of WORD_TO_DIGIT ("one", "zero", ...)           *)
(* An extracted id or PIN is a sequence of digits; NoDigits stands for     *)
(* None.                                                                   *)
(***************************************************************************)
Tok(k, v) == [k |-> k, v |-> v]
W(k) == Tok(k, << >>)
D(v) == Tok("d", v)
S(n) == Tok("s", <<n>>)
NoDigits == << >>

\* every number word is replaced by its digit; the spaces between the words
\* stay
normalize_spoken_digits(text) ==
    [i \in DOMAIN text |-> IF text[i].k = "s" THEN D(text[i].v) ELSE text[i]]

\* the words that end the digits in _digits_after_label:
\* and|pin|customer|id|cust|my|the|a
IsStop(tok) == tok.k \in {"and", "pin", "id", "my"}

Take(v, n) == IF Len(v) > n THEN SubSeq(v, 1, n) ELSE v

\* the digits of the tokens text[from..to], joined
RECURSIVE Joined(_, _, _)
Joined(text, from, to) ==
    IF from > to THEN << >> ELSE text[from].v \o Joined(text, from + 1, to)

\* the position of the first token at or after from that is not a number
RECURSIVE RunEnd(_, _)
RunEnd(text, from) ==
    IF from > Len(text) \/ text[from].k # "d" THEN from
    ELSE RunEnd(text, from + 1)

\* the position of the number that follows text[i] directly or after "is",
\* or 0
NumberAfter(text, i) ==
    LET j == IF i + 1 <= Len(text) /\ text[i + 1].k = "is" THEN i + 2 ELSE i + 1
    IN  IF j <= Len(text) /\ text[j].k = "d" THEN j ELSE 0

Least(set) == CHOOSE x \in set : \A y \in set : x <= y

\* _digits_after_label: the first match of the label, then "is" or not, then
\* digits and spaces up to a stop word or the end of the text
digits_after_label(text, label) ==
    LET at == {i \in DOMAIN text : text[i].k = label}
    IN  IF at = {} THEN NoDigits
        ELSE LET from == NumberAfter(text, Least(at))
                 to == RunEnd(text, from)
             IN  IF from = 0 THEN NoDigits
                 ELSE IF to <= Len(text) /\ ~IsStop(text[to]) THEN NoDigits
                 ELSE Take(Joined(text, from, to - 1), 10)

\* r'\bid\s+(?:is\s+)?(\d+).*?\bpin\s+(?:is\s+)?(\d+)': the leftmost "id"
\* with a number after it and a later "pin" with a number after it; the
\* groups are the two numbers (one group of contiguous digits each)
IdPinPattern(text) ==
    LET pins(i) == {j \in DOMAIN text :
                        /\ j > NumberAfter(text, i)
                        /\ text[j].k = "pin"
                        /\ NumberAfter(text, j) # 0}
        ids == {i \in DOMAIN text :
                    text[i].k = "id" /\ NumberAfter(text, i) # 0 /\ pins(i) # {}}
    IN  IF ids = {} THEN [found |-> FALSE, id |-> NoDigits, pin |-> NoDigits]
        ELSE LET i == Least(ids)
             IN  [found |-> TRUE,
                  id |-> text[NumberAfter(text, i)].v,
                  pin |-> text[NumberAfter(text, Least(pins(i)))].v]

\* re.findall(r'\b\d{4}\b', text)
FourDigitGroups(text) ==
    LET groups == SelectSeq(text, LAMBDA tok : tok.k = "d" /\ Len(tok.v) = 4)
    IN  [i \in DOMAIN groups |-> groups[i].v]

\* sequences.remove(pin): the first occurrence is taken out
RemoveFirst(seq, v) ==
    LET at == {i \in DOMAIN seq : seq[i] = v}
    IN  IF at = {} THEN seq
        ELSE LET i == Least(at)
             IN  SubSeq(seq, 1, i - 1) \o SubSeq(seq, i + 1, Len(seq))

extract_credentials(raw) ==
    LET text == normalize_spoken_digits(raw)
        \* labels first
        id1 == digits_after_label(text, "id")
        pin1 == Take(digits_after_label(text, "pin"), 4)
        \* then the "id X ... pin Y" pattern
        pattern == IdPinPattern(text)
        try2 == (id1 = NoDigits \/ pin1 = NoDigits) /\ pattern.found
        id2 == IF try2 /\ id1 = NoDigits THEN pattern.id ELSE id1
        pin2 == IF try2 /\ pin1 = NoDigits THEN Take(pattern.pin, 4) ELSE pin1
        \* then the 4-digit groups
        try3 == id2 = NoDigits \/ pin2 = NoDigits
        sequences == IF pin2 # NoDigits
                     THEN RemoveFirst(FourDigitGroups(text), pin2)
                     ELSE FourDigitGroups(text)
        id3 == IF try3 /\ Len(sequences) > 0 /\ id2 = NoDigits
               THEN sequences[1] ELSE id2
        pin3 == IF ~try3 \/ Len(sequences) = 0 THEN pin2
                ELSE IF id2 = NoDigits
                THEN IF Len(sequences) > 1 /\ pin2 = NoDigits
                     THEN sequences[2] ELSE pin2
                ELSE IF pin2 = NoDigits THEN sequences[1]
                ELSE pin2
    IN  [id |-> id3, pin |-> pin3]

(***************************************************************************)
(* State                                                                   *)
(*   sessions  session_manager.sessions                                    *)
(*   now       time.time()                                                 *)
(*   obs       what the last operation did (a record of the run, for the   *)
(*             properties; the program does not read it)                   *)
(*   lockout   per session id, whether a session stored under it has been  *)
(*             locked since the last reset_session: "locked" while that    *)
(*             session is in the store, "evicted" once a sweep removed it  *)
(*             (a record of the run as well)                               *)
(*   rejections  per session id, the verify_identity calls that were       *)
(*             rejected during the life of the session stored under it (a  *)
(*             record of the run as well)                                  *)
(*   inflight  the suspended requests with their locals: stage "verifier"  *)
(*             at "await verify_identity(...)" in _process_auth_attempt,   *)
(*             stage "graph" at the banking call of a handler inside       *)
(*             "await agent_graph.ainvoke(...)" in _run_agent              *)
(***************************************************************************)
VARIABLES sessions, now, obs, lockout, rejections, inflight

vars == <<sessions, now, obs, lockout, rejections, inflight>>

\* at most MaxInflight requests are suspended at a time
Slots == 1..MaxInflight
Idle == [stage |-> "idle", sid |-> None, text |-> NoText, creds |-> NoCredentials,
         call |-> NoCall, tried |-> AuthOutcome([locked |-> FALSE]),
         detached |-> FALSE]

\* op: the operation; sid: the session id of the request; text: the text of
\* the request; creds: what
\* extract_credentials found in it; call: the
\* verify_identity call of the turn; auth: its auth outcome; verified, flow,
\* lock_flow: verified, current_flow and lock_flow of the state the graph was
\* started with;
\* reply, path, llm_called, executed, cancelled, raised: as in the final state
\* of the graph; removed: the sessions a sweep or a reset removed
\* update_session called with no argument but the session id
NoUpdate == [f \in {} |-> None]

\* what the caller of extract_credentials said: which credentials, and their
\* digits (a record of the run)
Said(shape, id, pin) == [shape |-> shape, id |-> id, pin |-> pin]

NoObs(op) ==
    [op |-> op,
     sid |-> None,
     text |-> NoText,
     creds |-> NoCredentials,
     call |-> NoCall,
     auth |-> AuthOutcome([locked |-> FALSE]),
     verified |-> FALSE,
     flow |-> None,
     lock_flow |-> FALSE,
     reply |-> None,
     replies |-> 0,
     path |-> << >>,
     llm_called |-> FALSE,
     executed |-> None,
     cancelled |-> FALSE,
     raised |-> None,
     removed |-> 0,
     upd |-> NoUpdate,
     utterance |-> << >>,
     said |-> Said("none", NoDigits, NoDigits),
     extracted |-> [id |-> NoDigits, pin |-> NoDigits],
     kws |-> {},
     labels |-> {},
     classified |-> [flow |-> None, llm_called |-> FALSE]]

\* the empty store at start-up
InitStore ==
    /\ sessions = [sid \in SessionIds |-> Absent]
    /\ now = 0
    /\ lockout = [sid \in SessionIds |-> None]
    /\ rejections = [sid \in SessionIds |-> 0]
    /\ inflight = [slot \in Slots |-> Idle]

Init ==
    /\ InitStore
    /\ obs = NoObs("init")

\* chat_completions up to the call of _run_agent: the store, the auth outcome,
\* the verify_identity call and the effective input
AfterAuth(ss0, sid, text, pa) ==
    LET session == IF AuthOnly(pa.auth) THEN pa.session
                   ELSE [pa.session EXCEPT !.last_intent_message = text]
    IN  [created |-> ss0,
         sessions |-> [ss0 EXCEPT ![sid] = session],
         auth |-> pa.auth,
         call |-> pa.call,
         effective_input |-> EffectiveInput(session, pa.auth, text)]

Received(sid, text, customer_id, pin) ==
    LET ss0 == get_or_create_session(sessions, sid, now)
    IN  AfterAuth(ss0, sid, text, process_auth_attempt(ss0[sid], customer_id, pin))

\* one request, from get_or_create_session to the response
Turn(sid, text, creds, rcv, db, llm, outcome, block) ==
    LET run == run_agent(rcv.sessions, sid, rcv.effective_input, rcv.auth, now,
                         llm, outcome, block)
        seen == [NoObs("turn") EXCEPT !.sid = sid, !.text = text, !.creds = creds,
                                      !.call = rcv.call]
        lived == IF Present(sessions, sid) THEN rejections[sid] ELSE 0
    IN  IF VerifierFails(rcv.call, db)
        THEN /\ sessions' = rcv.created
             /\ obs' = [seen EXCEPT !.raised = "verifier"]
             /\ rejections' = [rejections EXCEPT ![sid] = lived]
             /\ UNCHANGED lockout
        ELSE /\ sessions' = run.sessions
             /\ rejections' = [rejections EXCEPT ![sid] =
                                IF rcv.call.called /\ rcv.auth.success = "false"
                                THEN lived + 1 ELSE lived]
             /\ lockout' = [lockout EXCEPT ![sid] =
                                IF run.sessions[sid].locked THEN "locked" ELSE @]
             /\ obs' = [seen EXCEPT !.auth = rcv.auth,
                                    !.verified = run.state.verified,
                                    !.flow = run.state.current_flow,
                                    !.lock_flow = run.state.lock_flow,
                                    !.reply = run.result.reply,
                                    !.replies = run.result.replies,
                                    !.path = run.result.path,
                                    !.llm_called = run.result.llm_called,
                                    !.executed = run.result.executed,
                                    !.cancelled = run.result.cancelled,
                                    !.raised = run.result.raised]

\* verify_identity suspends in execute_query for every id that is not a
\* mock customer
Suspends(call) == call.called /\ call.customer_id # "1111"

\* the external outcomes are drawn only where the turn asks for them
Serve(sid, text, creds, rcv) ==
    LET state == BuildState(rcv.sessions[sid], rcv.effective_input, rcv.auth)
        probe == agent_graph(state, None, rcv.sessions[sid].customer_id, "acct", "ok")
    IN  \E db \in IF Suspends(rcv.call) THEN VerifierOutcomes ELSE {"ok"} :
        \E llm \in IF ConsultsLlm(state) THEN LlmAnswers ELSE {None} :
        \E outcome \in IF probe.reply = "acct" THEN AccountOutcomes ELSE {"acct"} :
        \E block \in IF probe.executed # None THEN BlockOutcomes ELSE {"ok"} :
            Turn(sid, text, creds, rcv, db, llm, outcome, block)

\* a request served with no other request in between
ProcessTurn(requests) ==
    \E sid \in Callers, req \in requests :
        /\ Serve(sid, req[1], req[2], Received(sid, req[1], req[2][1], req[2][2]))
        /\ UNCHANGED <<now, inflight>>

\* a request runs up to "await verify_identity(customer_id, pin)" and is
\* suspended there: the session was fetched or created, the lockout check
\* passed, nothing else was written
StartTurn(requests) ==
    \E sid \in Callers, req \in requests, slot \in Slots :
        LET ss0 == get_or_create_session(sessions, sid, now)
            pa == process_auth_attempt(ss0[sid], req[2][1], req[2][2])
        IN  /\ inflight[slot] = Idle
            /\ \A other \in Slots : other < slot => inflight[other] # Idle
            /\ Suspends(pa.call)
            /\ sessions' = ss0
            /\ inflight' = [inflight EXCEPT ![slot] =
                    [stage |-> "verifier", sid |-> sid, text |-> req[1],
                     creds |-> req[2], call |-> pa.call,
                     tried |-> [AuthOutcome(ss0[sid]) EXCEPT !.attempted = TRUE],
                     detached |-> FALSE]]
            /\ obs' = [NoObs("start") EXCEPT !.sid = sid, !.text = req[1],
                                             !.creds = req[2]]
            /\ rejections' = [rejections EXCEPT ![sid] =
                                IF Present(sessions, sid) THEN @ ELSE 0]
            /\ UNCHANGED <<now, lockout>>

\* verify_identity returns to a suspended request, which runs to its
\* response on the session object as it is now
FinishTurn ==
    \E slot \in Slots :
        LET req == inflight[slot]
            pa == AfterVerifier(sessions[req.sid], req.tried,
                                req.call.customer_id, req.call.pin)
        IN  /\ req.stage = "verifier"
            /\ Present(sessions, req.sid)
            /\ Serve(req.sid, req.text, req.creds,
                     AfterAuth(sessions, req.sid, req.text, pa))
            /\ inflight' = [inflight EXCEPT ![slot] = Idle]
            /\ UNCHANGED now

\* a request runs up to the banking call of its handler (block_card in
\* handle_confirmation, the account calls in handle_account_flow) and is
\* suspended there: the auth attempt is over, _run_agent fetched the session
\* and built the state, the writes that follow the graph are still to come.
\* result is what the graph returns once the call has returned, held the
\* session object of _run_agent as it is at the await.
StartRun(requests) ==
    \E sid \in Callers, req \in requests, slot \in Slots :
        LET rcv == Received(sid, req[1], req[2][1], req[2][2])
            state == BuildState(rcv.sessions[sid], rcv.effective_input, rcv.auth)
        IN  /\ inflight[slot] = Idle
            /\ \A other \in Slots : other < slot => inflight[other] # Idle
            /\ ~Suspends(rcv.call)
            /\ \E llm \in IF ConsultsLlm(state) THEN LlmAnswers ELSE {None} :
                LET probe == agent_graph(state, llm, rcv.sessions[sid].customer_id,
                                         "acct", "ok")
                IN  /\ probe.reply = "acct" \/ probe.executed # None
                    /\ \E outcome \in IF probe.reply = "acct" THEN AccountOutcomes
                                       ELSE {"acct"} :
                       \E block \in IF probe.executed # None THEN BlockOutcomes
                                     ELSE {"ok"} :
                        LET run == run_agent(rcv.sessions, sid, rcv.effective_input,
                                             rcv.auth, now, llm, outcome, block)
                        IN  /\ sessions' = run.started
                            /\ inflight' = [inflight EXCEPT ![slot] =
                                    [stage |-> "graph", sid |-> sid, text |-> req[1],
                                     creds |-> req[2], call |-> rcv.call,
                                     tried |-> rcv.auth, detached |-> FALSE,
                                     state |-> run.state, result |-> run.result,
                                     held |-> run.started[sid]]]
                            /\ obs' = [NoObs("start") EXCEPT
                                            !.sid = sid, !.text = req[1],
                                            !.creds = req[2], !.call = rcv.call,
                                            !.auth = rcv.auth]
                            /\ rejections' = [rejections EXCEPT ![sid] =
                                    LET lived == IF Present(sessions, sid) THEN @ ELSE 0
                                    IN  IF rcv.call.called /\ rcv.auth.success = "false"
                                        THEN lived + 1 ELSE lived]
                            /\ lockout' = [lockout EXCEPT ![sid] =
                                    IF run.started[sid].locked THEN "locked" ELSE @]
                            /\ UNCHANGED now

\* the banking call returns to a suspended request: the graph ends and
\* _run_agent makes its update_session calls by session id, on whatever
\* session the store holds under that id now
FinishRun ==
    \E slot \in Slots :
        LET req == inflight[slot]
            result == req.result
            session == IF req.detached THEN req.held ELSE sessions[req.sid]
            ss3 == IF IsAuthRequest(result) /\ result.current_flow # None
                        /\ ~session.verified
                   THEN update_session(sessions, req.sid,
                                       [original_intent |-> result.current_flow], now)
                   ELSE sessions
            ss4 == update_session(ss3, req.sid, Fold(result, session), now)
        IN  /\ req.stage = "graph"
            /\ sessions' = IF result.raised # None THEN sessions ELSE ss4
            /\ obs' = [NoObs("turn") EXCEPT
                            !.sid = req.sid, !.text = req.text, !.creds = req.creds,
                            !.call = req.call, !.auth = req.tried,
                            !.verified = req.state.verified,
                            !.flow = req.state.current_flow,
                            !.lock_flow = req.state.lock_flow,
                            !.reply = result.reply,
                            !.replies = result.replies,
                            !.path = result.path,
                            !.llm_called = result.llm_called,
                            !.executed = result.executed,
                            !.cancelled = result.cancelled,
                            !.raised = result.raised]
            /\ lockout' = [lockout EXCEPT ![req.sid] =
                    IF Present(sessions', req.sid) /\ sessions'[req.sid].locked
                    THEN "locked" ELSE @]
            /\ inflight' = [inflight EXCEPT ![slot] = Idle]
            /\ UNCHANGED <<now, rejections>>

\* a suspended request keeps the session object it fetched; once the store
\* drops that session the object is no longer the stored one
Detach(removed) ==
    [slot \in Slots |->
        IF inflight[slot].stage # "idle" /\ inflight[slot].sid \in removed
        THEN [inflight[slot] EXCEPT !.detached = TRUE]
        ELSE inflight[slot]]

\* start_cleanup_task: one pass of the periodic sweep
Sweep ==
    /\ sessions' = cleanup_expired_sessions(sessions, now)
    /\ obs' = [NoObs("sweep") EXCEPT !.removed = Cardinality(Expired(sessions, now))]
    /\ lockout' = [sid \in SessionIds |->
                        IF sid \in Expired(sessions, now) /\ lockout[sid] = "locked"
                        THEN "evicted" ELSE lockout[sid]]
    /\ rejections' = [sid \in SessionIds |->
                        IF sid \in Expired(sessions, now) THEN 0 ELSE rejections[sid]]
    /\ inflight' = Detach(Expired(sessions, now))
    /\ UNCHANGED now

\* POST /api/sessions/reset with a session_id
ResetSession(ids) ==
    \E sid \in ids :
        /\ sessions' = reset_session(sessions, sid)
        /\ obs' = [NoObs("reset") EXCEPT
                        !.removed = IF Present(sessions, sid) THEN 1 ELSE 0]
        /\ lockout' = [lockout EXCEPT ![sid] = None]
        /\ rejections' = [rejections EXCEPT ![sid] = 0]
        /\ inflight' = Detach(IF Present(sessions, sid) THEN {sid} ELSE {})
        /\ UNCHANGED now

\* a reset of the caller's session, and a reset of any session
Reset == ResetSession(Callers)
ResetAny == ResetSession(SessionIds)

Tick ==
    /\ now < MaxTime
    /\ now' = now + 1
    /\ obs' = NoObs("tick")
    /\ UNCHANGED <<sessions, lockout, rejections, inflight>>

\* get_or_create_session called on its own
GetOrCreate ==
    \E sid \in SessionIds :
        /\ sessions' = get_or_create_session(sessions, sid, now)
        /\ obs' = [NoObs("get") EXCEPT !.sid = sid]
        /\ UNCHANGED <<now, lockout, rejections, inflight>>

\* the arguments update_session is called with: fields set, fields set to
\* None and False, the increment flag on and off, and no argument
Updates ==
    {NoUpdate,
     [verified |-> TRUE, customer_id |-> "1111"],
     [verified |-> FALSE, customer_id |-> None],
     [pending_action |-> BlockCard("CARD_001")],
     [pending_action |-> NoAction, increment_auth_attempts |-> FALSE],
     [increment_auth_attempts |-> TRUE]}

\* update_session called on its own, for a session id that is in the store
\* or not
Update ==
    \E sid \in SessionIds, upd \in Updates :
        /\ Increments(upd) /\ Present(sessions, sid)
                => sessions[sid].auth_attempts < MaxIncrements
        /\ sessions' = update_session(sessions, sid, upd, now)
        /\ obs' = [NoObs("update") EXCEPT !.sid = sid, !.upd = upd]
        /\ UNCHANGED <<now, lockout, rejections, inflight>>

\* the numbers a caller says: ids of 1 to 4 digits, PINs of 4 and of 6
\* digits, one of them equal to an id
IdNumbers == {<<5>>, <<1, 0>>, <<9, 9, 9>>, <<1, 2, 3, 4>>}
PinNumbers == {<<5, 6, 7, 8>>, <<1, 2, 3, 4>>, <<1, 2, 3, 4, 5, 6>>}

\* a number as it arrives: "1234", "1 2 3 4" or "one two three four"
Forms == {"contiguous", "spaced", "spoken"}
Written(v, form) ==
    IF form = "contiguous" THEN <<D(v)>>
    ELSE [i \in DOMAIN v |-> IF form = "spaced" THEN D(<<v[i]>>) ELSE S(v[i])]

\* "id 10", "id is 10", "pin 1 2 3 4", a bare number
Labelled(label, is, v, form) ==
    (IF label = None THEN << >> ELSE <<W(label)>>)
        \o (IF is THEN <<W("is")>> ELSE << >>) \o Written(v, form)

\* the words before, between and after the credentials: "my", "and", and a
\* word such as "please"
Heads == {<< >>, <<W("my")>>}
Joins == {<< >>, <<W("and")>>}
Tails == {<< >>, <<W("word")>>}

\* utterances with no digit at all: "", "please", "my id", "my pin is"
NoDigitUtterances ==
    {<< >>, <<W("word")>>, <<W("my"), W("id")>>, <<W("my"), W("pin"), W("is")>>}

\* the caller says a labelled id and then a labelled PIN
HeardBoth ==
    \E id \in IdNumbers, pin \in PinNumbers, f1 \in Forms, f2 \in Forms,
       is \in BOOLEAN, head \in Heads, join \in Joins, tail \in Tails :
        obs = [NoObs("hear") EXCEPT
                    !.utterance = head \o Labelled("id", is, id, f1) \o join
                                       \o Labelled("pin", is, pin, f2) \o tail,
                    !.said = Said("both", id, pin)]

\* the caller says one group of digits: labelled as id, labelled as pin, or
\* bare
HeardOne ==
    \E label \in {"id", "pin", None}, v \in IdNumbers, is \in BOOLEAN,
       head \in Heads, tail \in Tails :
        /\ label = None => ~is
        /\ obs = [NoObs("hear") EXCEPT
                    !.utterance = head \o Labelled(label, is, v, "contiguous") \o tail,
                    !.said = IF label = "pin" THEN Said("pin", NoDigits, v)
                             ELSE IF label = "id" THEN Said("id", v, NoDigits)
                             ELSE Said("bare", v, NoDigits)]

\* the caller says no digit
HeardNone ==
    \E text \in NoDigitUtterances :
        obs = [NoObs("hear") EXCEPT !.utterance = text]

\* a request arrives with its raw text
InitExtract ==
    /\ InitStore
    /\ HeardBoth \/ HeardOne \/ HeardNone

\* extract_credentials(raw_user_input)
Extract ==
    /\ obs.op = "hear"
    /\ obs' = [obs EXCEPT !.op = "extract",
                          !.extracted = extract_credentials(obs.utterance)]
    /\ UNCHANGED <<sessions, now, lockout, rejections, inflight>>

\* an utterance reaches the classifying branch of route_intent: the
\* categories whose keywords occur in it, and the category names that occur
\* in the answer the classifier would give
InitClassify ==
    /\ InitStore
    /\ \E kws \in SUBSET Flows, labels \in SUBSET Flows :
            obs = [NoObs("route") EXCEPT !.kws = kws, !.labels = labels]

\* route_intent from "Fast keyword routing first" to its return
Classify ==
    /\ obs.op = "route"
    /\ obs' = [obs EXCEPT !.op = "classify",
                          !.classified = classify(obs.kws, obs.labels)]
    /\ UNCHANGED <<sessions, now, lockout, rejections, inflight>>

\* The confirmation stage entered on its own.  Within the graph the stage
\* follows card_flow, which a state with verified = false never reaches; the
\* stage itself takes whatever state it is handed, so it is handed the state
\* _run_agent builds from a session with every combination of verified,
\* pending_action and awaiting_confirmation, and a reply of every kind.
StageTexts == {T_yes, T_no, T_yes_no, T_maybe, T_wait, T_yes_lost_debit}

InitStage ==
    /\ now = 0
    /\ lockout = [sid \in SessionIds |-> None]
    /\ rejections = [sid \in SessionIds |-> 0]
    /\ inflight = [slot \in Slots |-> Idle]
    /\ \E sid \in Callers, verified \in BOOLEAN, pending \in PendingActions,
          awaiting \in BOOLEAN, text \in StageTexts :
            /\ sessions = [id \in SessionIds |->
                    IF id = sid
                    THEN [SessionState(0) EXCEPT
                            !.verified = verified,
                            !.customer_id = IF verified THEN "1111" ELSE None,
                            !.current_flow = "card_issues",
                            !.pending_action = pending,
                            !.awaiting_confirmation = awaiting]
                    ELSE Absent]
            /\ obs = [NoObs("enter") EXCEPT !.sid = sid, !.text = text]

\* handle_confirmation on the state built from the session, and the end of
\* the turn: the update_session calls of _run_agent, or none of them when
\* the stage raised
ConfirmStage ==
    /\ obs.op = "enter"
    /\ \E block \in BlockOutcomes :
        LET sid == obs.sid
            session == sessions[sid]
            state == BuildState(session, obs.text, AuthOutcome(session))
            result == handle_confirmation(state, block)
            ss3 == IF IsAuthRequest(result) /\ result.current_flow # None
                        /\ ~session.verified
                   THEN update_session(sessions, sid,
                                       [original_intent |-> result.current_flow], now)
                   ELSE sessions
            ss4 == update_session(ss3, sid, Fold(result, session), now)
        IN  /\ sessions' = IF result.raised # None THEN sessions ELSE ss4
            /\ obs' = [NoObs("confirm") EXCEPT
                            !.sid = sid, !.text = obs.text,
                            !.verified = state.verified,
                            !.flow = state.current_flow,
                            !.lock_flow = state.lock_flow,
                            !.reply = result.reply,
                            !.replies = result.replies,
                            !.path = result.path,
                            !.executed = result.executed,
                            !.cancelled = result.cancelled,
                            !.raised = result.raised]
    /\ UNCHANGED <<now, lockout, rejections, inflight>>

(***************************************************************************)
(* Specifications.  They differ in the requests the callers send.          *)
(***************************************************************************)
Credentialed(pairs) == CredTexts \X pairs

\* authentication: a sensitive request, small talk, a topic change to a
\* flow that needs no authentication, and every credential submission
AuthPairs ==
    {<<"1111", "2222">>, <<"1111", "1111">>, <<"2222", "2222">>,
     <<"1111", None>>, <<None, "2222">>}

AuthRequests ==
    ({T_lost, T_hello, T_actually_transfer} \X {NoCredentials})
        \cup ({T_labels} \X AuthPairs)

AuthTurn == ProcessTurn(AuthRequests)

\* routing: small talk, a keyword of each sensitive flow, topic changes with
\* and without a keyword, and the accepted, a rejected and a partial
\* credential submission
RoutePairs == {<<"1111", "2222">>, <<"1111", "1111">>, <<"1111", None>>}

RouteRequests ==
    ({T_hello, T_lost, T_balance, T_actually_transfer, T_something_else}
        \X {NoCredentials})
        \cup ({T_labels} \X RoutePairs)

RouteTurn == ProcessTurn(RouteRequests)

NextRoute == RouteTurn \/ Reset

SpecRoute == Init /\ [][NextRoute]_vars

\* confirmation: the requests that lead to the block prompt, the replies to
\* it (affirmative, negative, both at once with a topic-change phrase,
\* unclear, small talk with and without a negative word), and the accepted
\* and a rejected credential submission
ConfirmPairs == {<<"1111", "2222">>, <<"1111", "1111">>}

ConfirmRequests ==
    ({T_lost, T_yes_lost_debit, T_yes, T_no, T_wait, T_maybe, T_hello,
      T_no_thanks} \X {NoCredentials})
        \cup ({T_labels} \X ConfirmPairs)

ConfirmTurn == ProcessTurn(ConfirmRequests)

NextConfirm == ConfirmTurn \/ Reset

SpecConfirm == Init /\ [][NextConfirm]_vars

\* overlapping turns: a sensitive request, and the accepted pair and a pair
\* with an id the database is asked for, served at once or suspended in
\* verify_identity
RacePairs == {<<"1111", "2222">>, <<"2222", "2222">>}

RaceRequests == ({T_lost} \X {NoCredentials}) \cup ({T_labels} \X RacePairs)

RaceTurn == ProcessTurn(RaceRequests)

RaceStart == StartTurn(RaceRequests)

NextRace == RaceTurn \/ RaceStart \/ FinishTurn

SpecRace == Init /\ [][NextRace]_vars

\* credential submissions that overlap in the verifier call: a customer of
\* the database submits a wrong and the right PIN
LockPairs == {<<"2222", "2222">>, <<"2222", "3333">>}

LockRequests == {T_labels} \X LockPairs

LockTurn == ProcessTurn(LockRequests)

LockStart == StartTurn(LockRequests)

NextLock == LockTurn \/ LockStart \/ FinishTurn

SpecLock == Init /\ [][NextLock]_vars

\* requests that overlap inside the graph: a session is verified, names the
\* card and is asked to confirm the block; the confirmation is suspended at
\* the block_card call, and the session may be reset and created again
\* before the call returns
RunRequests ==
    ({T_lost, T_credit} \X {NoCredentials})
        \cup ({T_labels} \X {<<"1111", "2222">>})

RunConfirmations == {T_yes} \X {NoCredentials}

RunTurn == ProcessTurn(RunRequests)

RunStart == StartRun(RunConfirmations)

NextRun == RunTurn \/ RunStart \/ FinishRun \/ Reset

SpecRun == Init /\ [][NextRun]_vars

\* greetings: alone, with a keyword, with a short number, with a 4-digit
\* number ("hello 1111" is redacted to "hello ****", the text of "hello"),
\* and with the accepted and a rejected credential pair; and a sensitive
\* request
GreetPairs == {<<"1111", "2222">>, <<"1111", "1111">>}

GreetRequests ==
    ({T_hello, T_hello_balance, T_hello_42, T_lost} \X {NoCredentials})
        \cup {<<T_hello, <<"1111", None>>>>}
        \cup ({T_hello_labels} \X GreetPairs)

GreetTurn == ProcessTurn(GreetRequests)

NextGreet == GreetTurn \/ Reset

SpecGreet == Init /\ [][NextGreet]_vars

\* extract_credentials on its own
NextExtract == Extract

SpecExtract == InitExtract /\ [][NextExtract]_vars

\* the confirmation stage on its own
NextStage == ConfirmStage

SpecStage == InitStage /\ [][NextStage]_vars

\* the classifying branch of route_intent on its own
NextClassify == Classify

SpecClassify == InitClassify /\ [][NextClassify]_vars

\* the store on its own: sessions created, updated, swept and reset while
\* time passes
NextStore == GetOrCreate \/ Update \/ Sweep \/ ResetAny \/ Tick

SpecStore == Init /\ [][NextStore]_vars

\* credentials given in two halves: an id alone (the accepted one and another),
\* a PIN alone, and a sensitive request
PairPairs == {<<"1111", None>>, <<"2222", None>>, <<None, "2222">>}

PairRequests == ({T_lost} \X {NoCredentials}) \cup ({T_labels} \X PairPairs)

PairTurn == ProcessTurn(PairRequests)

NextPair == PairTurn \/ Reset

SpecPair == Init /\ [][NextPair]_vars

NextAuth == AuthTurn \/ Sweep \/ Reset \/ Tick

SpecAuth == Init /\ [][NextAuth]_vars

(***************************************************************************)
(* Properties                                                              *)
(***************************************************************************)
LockedBefore(sid) == Present(sessions, sid) /\ sessions[sid].locked

\* the last operation was a turn that ran the node
Ran(node) == obs.op = "turn" /\ \E i \in DOMAIN obs.path : obs.path[i] = node

\* the replies of the sensitive handlers' business logic
BusinessReplies ==
    {"askwhich", "confirmprompt", "reask", "cardinfo", "askissue",
     "blocked", "done", "cancelled", "reprompt",
     "acct", "acctcards", "accthuman"}

\* the turn of the step ran the node
RunsNode(node) == \E i \in DOMAIN obs'.path : obs'.path[i] = node

\* the last operation was the turn in which the card handler set
\* pending_action and prompted, and the step is the next turn of the session
AfterPrompt ==
    /\ obs.op = "turn" /\ obs.reply = "confirmprompt"
    /\ obs'.op = "turn" /\ obs'.sid = obs.sid

\* the step is a turn that ran to its response
TurnDone == obs'.op = "turn" /\ obs'.raised = None

\* the replies that ask for credentials (the auth-failure reply asks to try
\* again)
CredentialRequests == {"reqauth", "reqpin", "reqid", "authfail"}

\* the credential requests and the auth-failure and lock replies
AuthReplies == {"reqauth", "reqpin", "reqid", "authfail", "locked"}

\* C1: the rejected complete-credential submission that brings a session to
\* MAX_AUTH_ATTEMPTS leaves it locked, and every turn on a locked session
\* leaves it locked and unverified and makes no verify_identity call,
\* whatever credentials the turn submits.
C1_LockoutHolds ==
    [][obs'.op = "turn" =>
        LET sid == obs'.sid IN
        /\ (obs'.call.called /\ obs'.auth.success = "false"
                /\ sessions'[sid].auth_attempts >= MAX_AUTH_ATTEMPTS)
            => sessions'[sid].locked
        /\ LockedBefore(sid)
            => /\ sessions'[sid].locked
               /\ ~sessions'[sid].verified
               /\ ~obs'.call.called]_vars

\* a locked session was sent the credentials verify_identity accepts
C1_Witness ==
    /\ obs.op = "turn"
    /\ obs.creds = <<"1111", "2222">>
    /\ obs.auth.attempted /\ obs.auth.locked
    /\ sessions[obs.sid].auth_attempts = MAX_AUTH_ATTEMPTS
    /\ sessions[obs.sid].locked

\* C3 (as stated): a session id under which a session was locked since the
\* last reset_session never holds a session with locked = false, the sweep
\* and a new contact included.
C3_LockedUnlessReset ==
    \A sid \in SessionIds :
        (lockout[sid] # None /\ Present(sessions, sid)) => sessions[sid].locked

\* C3 (amended): a session locked since the last reset_session and not
\* removed by the sweep since is in the store with locked = true.
C3_LockedUntilRemoved ==
    \A sid \in SessionIds :
        lockout[sid] = "locked" => (Present(sessions, sid) /\ sessions[sid].locked)

\* a sweep passed over a locked session that had not expired
C3_Witness ==
    /\ obs.op = "sweep" /\ obs.removed = 0
    /\ \E sid \in SessionIds : lockout[sid] = "locked" /\ sessions[sid].locked

\* C4: a stored session with locked = true has verified = false.
C4_LockedNotVerified ==
    \A sid \in SessionIds :
        (Present(sessions, sid) /\ sessions[sid].locked) => ~sessions[sid].verified

\* a plain request was served for a locked session
C4_Witness ==
    /\ obs.op = "turn" /\ obs.creds = NoCredentials
    /\ sessions[obs.sid].locked
    /\ obs.reply = "locked"

\* C2: card_flow and account_flow run only in turns with verified = true, no
\* reply of their business logic and no block_card call comes from a turn
\* with verified = false, and an unverified turn that passes the auth gate
\* with a sensitive flow ends with a credential request or an auth-failure
\* or lock reply.
C2_SensitiveNeedsVerified ==
    obs.op = "turn" =>
        /\ (Ran("card_flow") \/ Ran("account_flow") \/ Ran("confirmation"))
            => obs.verified
        /\ (obs.reply \in BusinessReplies \/ obs.executed # None) => obs.verified
        /\ (Ran("auth_gate") /\ ~obs.verified /\ ~Ran("stub_flow"))
            => obs.reply \in AuthReplies

\* an unverified request for the balance was answered by the credential request
C2_Witness ==
    /\ Ran("request_auth")
    /\ ~obs.verified
    /\ obs.text = T_balance
    /\ obs.reply = "reqauth"
    /\ sessions[obs.sid].current_flow = "account_servicing"

\* C7 (as stated): on a session with current_flow = card_issues and
\* verified = false, a turn whose utterance does not hold the accepted
\* credentials replies with a credential request and leaves current_flow =
\* card_issues.
C7_CardFlowKeptUntilVerified ==
    [][(/\ TurnDone
        /\ Present(sessions, obs'.sid)
        /\ sessions[obs'.sid].current_flow = "card_issues"
        /\ ~sessions[obs'.sid].verified
        /\ ~verify_identity(obs'.creds[1], obs'.creds[2]))
       => /\ obs'.reply \in CredentialRequests
          /\ sessions'[obs'.sid].current_flow = "card_issues"]_vars

\* C8 (as stated): a turn on a session with current_flow = F, F not none,
\* whose utterance has no topic-change phrase leaves current_flow = F
\* (force_reroute is never set).
C8_FlowSticks ==
    [][(/\ TurnDone
        /\ Present(sessions, obs'.sid)
        /\ sessions[obs'.sid].current_flow # None
        /\ ~obs'.text.topic)
       => sessions'[obs'.sid].current_flow = sessions[obs'.sid].current_flow]_vars

C5_ReplyToPrompt ==
    [][AfterPrompt =>
        LET before == sessions[obs.sid]
            after == sessions'[obs.sid]
            text == obs'.text
        IN  /\ Affirmative(text)
                => /\ obs'.executed = before.pending_action.card_id
                   /\ after.pending_action = NoAction
                   /\ ~after.awaiting_confirmation
            /\ (~Affirmative(text) /\ Negative(text))
                => /\ obs'.executed = None
                   /\ after.pending_action = NoAction
            /\ (~Affirmative(text) /\ ~Negative(text))
                => /\ obs'.executed = None
                   /\ after.pending_action = before.pending_action
                   /\ after.awaiting_confirmation
                   /\ obs'.reply = "reprompt"]_vars

\* C6: block_card is called or the pending action cancelled only in a turn
\* on a session that had awaiting_confirmation = true when the turn began,
\* and the turn in which the card handler prompts does not run the
\* confirmation node, whatever words its utterance has.
C6_ConfirmationOnlyWhenAwaited ==
    [][obs'.op = "turn" =>
        /\ (obs'.executed # None \/ obs'.cancelled \/ RunsNode("confirmation"))
            => /\ Present(sessions, obs'.sid)
               /\ sessions[obs'.sid].awaiting_confirmation
        /\ obs'.reply = "confirmprompt"
            => /\ obs'.executed = None
               /\ ~obs'.cancelled
               /\ ~RunsNode("confirmation")
               /\ sessions'[obs'.sid].pending_action # NoAction
               /\ sessions'[obs'.sid].awaiting_confirmation]_vars

\* "yes block my lost debit card" was answered by the prompt and nothing
\* was executed
C6_Witness ==
    /\ obs.op = "turn"
    /\ obs.text = T_yes_lost_debit
    /\ obs.reply = "confirmprompt"
    /\ obs.executed = None
    /\ sessions[obs.sid].pending_action = BlockCard("CARD_001")

\* C10 (as stated): a turn that ran with lock_flow set leaves the session's
\* current_flow equal to the flow the turn started with.
C10_LockFlowKeepsFlow ==
    (obs.op = "turn" /\ obs.raised = None /\ obs.lock_flow)
        => sessions[obs.sid].current_flow = obs.flow

\* the last operation was a turn that ran to its response and left the
\* session in one of the four flows that need no authentication
EndedNonSensitive ==
    /\ obs.op = "turn" /\ obs.raised = None
    /\ sessions[obs.sid].current_flow \in Flows \ SensitiveFlows

\* C11 (as stated): a turn whose flow after routing is not sensitive runs
\* the flow's handler, which gives the reply, whatever verified, locked,
\* auth_attempts and the credential outcome of the turn are.
C11_NonSensitiveAlwaysHandled ==
    EndedNonSensitive => (Ran("stub_flow") /\ obs.reply = "stub")

\* C11 (amended): the same for the turns whose auth outcome is neither
\* locked nor a rejected submission.
C11_NonSensitiveHandledUnlessLockedOrRejected ==
    (EndedNonSensitive /\ ~obs.auth.locked /\ ~AuthJustFailed(obs.auth))
        => (Ran("stub_flow") /\ obs.reply = "stub")

\* an unverified session with a rejected attempt behind it asked for a
\* transfer and the transfers handler answered
C11_Witness ==
    /\ EndedNonSensitive
    /\ ~obs.verified
    /\ sessions[obs.sid].auth_attempts > 0
    /\ obs.text = T_actually_transfer
    /\ obs.reply = "stub"

\* the flow handlers and the confirmation node
HandlerNodes == {"card_flow", "account_flow", "stub_flow", "confirmation"}

\* the turn of the step ran to its response, was not small talk, and left
\* the session locked
EndsLocked ==
    /\ TurnDone
    /\ ~RunsNode("greeting")
    /\ sessions'[obs'.sid].locked

\* the turn of the step got the lock reply, stored requires_human = true and
\* ran no handler
HandedOver ==
    /\ obs'.reply = "locked"
    /\ sessions'[obs'.sid].requires_human
    /\ \A node \in HandlerNodes : ~RunsNode(node)

C13_AttemptsCapped ==
    \A sid \in SessionIds :
        Present(sessions, sid) =>
            /\ sessions[sid].auth_attempts <= MAX_AUTH_ATTEMPTS
            /\ rejections[sid] <= MAX_AUTH_ATTEMPTS

\* the session a turn on sid starts from: the stored one, or a new one
SessionBefore(sid) == get_or_create_session(sessions, sid, now)[sid]

\* the turn's utterance yields an id and no PIN, or a PIN and no id, and the
\* session holds no pending id
SoloNothingPending ==
    /\ obs'.op = "turn"
    /\ (obs'.creds[1] = None) # (obs'.creds[2] = None)
    /\ SessionBefore(obs'.sid).pending_customer_id = None

\* the turn is no attempt: the counters and flags are kept, verify_identity
\* is not called, and the outcome asks for exactly the missing half
NotAnAttempt ==
    LET sid == obs'.sid
        before == SessionBefore(sid)
    IN  /\ sessions'[sid].auth_attempts = before.auth_attempts
        /\ sessions'[sid].locked = before.locked
        /\ sessions'[sid].verified = before.verified
        /\ ~obs'.call.called
        /\ ~obs'.auth.attempted
        /\ obs'.auth.needs_pin # obs'.auth.needs_customer_id

\* C14 as stated: every turn that yields only an id or only a PIN, with no
\* pending id on the session, is not an attempt and its outcome has exactly
\* one of needs_pin / needs_customer_id.
C14_SoloIsNoAttempt ==
    [][SoloNothingPending => NotAnAttempt]_vars

\* C14, amended: the same, for a session that is not verified when the turn
\* starts (_process_auth_attempt returns at once for a verified session and
\* sets neither needs_pin nor needs_customer_id).
C14_SoloIsNoAttemptUnlessVerified ==
    [][(SoloNothingPending /\ ~SessionBefore(obs'.sid).verified)
            => NotAnAttempt]_vars

\* a PIN alone was sent to a session that has a rejected attempt and no
\* pending id
C14_Witness ==
    /\ obs.op = "turn"
    /\ obs.creds = <<None, "2222">>
    /\ obs.auth.needs_customer_id
    /\ sessions[obs.sid].auth_attempts >= 1
    /\ ~sessions[obs.sid].verified

IdOnly(creds) == creds[1] # None /\ creds[2] = None
PinOnly(creds) == creds[1] = None /\ creds[2] # None

\* two turns in a row on one session
NextTurnOnSession == obs.op = "turn" /\ obs'.op = "turn" /\ obs'.sid = obs.sid

\* verify_identity is called with the id of the earlier turn and the PIN of
\* the later one, and an accepted call leaves no pending id
CalledWithIdThenPin ==
    /\ obs'.call.called
    /\ obs'.call.customer_id = obs.creds[1]
    /\ obs'.call.pin = obs'.creds[2]
    /\ obs'.auth.success = "true"
            => sessions'[obs'.sid].pending_customer_id = None

\* C15 as stated: a turn that supplies only an id, followed by a turn that
\* supplies only a PIN, makes the second turn call verify_identity with the
\* id of the first and the PIN of the second; when the call is accepted the
\* pending id is cleared.
C15_IdThenPinVerifies ==
    [][(NextTurnOnSession /\ IdOnly(obs.creds) /\ PinOnly(obs'.creds))
            => CalledWithIdThenPin]_vars

\* C15, amended: the same, when the first turn was answered with needs_pin
\* (the session was not verified and held no pending id, so the id was
\* stored) and the session is neither locked nor at MAX_AUTH_ATTEMPTS when
\* the second turn starts.
C15_IdThenPinVerifiesWhenOpen ==
    [][(/\ NextTurnOnSession
        /\ IdOnly(obs.creds) /\ PinOnly(obs'.creds)
        /\ obs.auth.needs_pin
        /\ ~sessions[obs.sid].locked
        /\ sessions[obs.sid].auth_attempts < MAX_AUTH_ATTEMPTS)
            => CalledWithIdThenPin]_vars

\* a PIN alone completed the pending id 1111 and was accepted
C15_Witness ==
    /\ obs.op = "turn"
    /\ obs.creds = <<None, "2222">>
    /\ obs.call = [called |-> TRUE, customer_id |-> "1111", pin |-> "2222"]
    /\ obs.auth.success = "true"
    /\ sessions[obs.sid].verified
    /\ sessions[obs.sid].pending_customer_id = None

\* C16: a turn that supplies only a PIN, followed by a turn that supplies
\* only an id, makes the second turn call verify_identity with the id of the
\* second and the PIN of the first, when the session is not verified, holds
\* no pending id, and is neither locked nor at MAX_AUTH_ATTEMPTS.
C16_PinThenIdVerifies ==
    [][(/\ NextTurnOnSession
        /\ PinOnly(obs.creds) /\ IdOnly(obs'.creds)
        /\ obs.auth.needs_customer_id
        /\ ~sessions[obs.sid].locked
        /\ sessions[obs.sid].auth_attempts < MAX_AUTH_ATTEMPTS)
            => /\ obs'.call.called
               /\ obs'.call.customer_id = obs'.creds[1]
               /\ obs'.call.pin = obs.creds[2]]_vars

\* the sessions whose last activity lies more than the timeout before now
PastTimeout ==
    {sid \in SessionIds :
        Present(sessions, sid) /\ now - sessions[sid].last_activity > SessionTimeout}

\* C17: a sweep removes every session whose last_activity is more than
\* session_timeout before the sweep, so that get_session returns None for
\* it; every other session is left with all its fields; the value returned
\* is the number of sessions removed.
C17_SweepRemovesExpiredOnly ==
    [][obs'.op = "sweep" =>
        /\ \A sid \in PastTimeout :
                ~Present(sessions', sid) /\ get_session(sessions', sid) = None
        /\ \A sid \in SessionIds \ PastTimeout : sessions'[sid] = sessions[sid]
        /\ obs'.removed = Cardinality(PastTimeout)]_vars

\* a sweep removed one session and left the other, whose last activity is
\* exactly the timeout before the sweep
C17_Witness ==
    /\ obs.op = "sweep"
    /\ obs.removed = 1
    /\ \E sid \in SessionIds :
            Present(sessions, sid) /\ now - sessions[sid].last_activity = SessionTimeout

\* C18: update_session for a session id that is not in the store raises
\* nothing, creates no session and changes no session.
C18_UpdateOfAbsentDropped ==
    [][(obs'.op = "update" /\ ~Present(sessions, obs'.sid)) =>
        /\ obs'.raised = None
        /\ ~Present(sessions', obs'.sid)
        /\ sessions' = sessions]_vars

\* update_session with fields to set was called for a session that had been
\* removed while the other session was in the store
C18_Witness ==
    /\ obs.op = "update"
    /\ obs.upd = [verified |-> TRUE, customer_id |-> "1111"]
    /\ ~Present(sessions, obs.sid)
    /\ \E sid \in SessionIds : Present(sessions, sid)

\* the fields of a session that update_session can be passed
Updatable ==
    {"verified", "customer_id", "current_flow", "original_intent",
     "pending_action", "awaiting_confirmation", "requires_human", "locked",
     "conversation_history", "last_intent_message"}

\* C19: update_session on a stored session sets every field passed to the
\* value passed, None and False included, adds one to auth_attempts when
\* increment_auth_attempts is passed as True, sets last_activity to the time
\* of the call, and leaves every other field and every other session as it
\* was.
C19_UpdateSetsPassedOnly ==
    [][(obs'.op = "update" /\ Present(sessions, obs'.sid)) =>
        LET sid == obs'.sid
            upd == obs'.upd
        IN  /\ \A f \in DOMAIN upd \cap Updatable : sessions'[sid][f] = upd[f]
            /\ \A f \in DOMAIN sessions[sid] \ (DOMAIN upd \cup {"last_activity", "auth_attempts"}) :
                    sessions'[sid][f] = sessions[sid][f]
            /\ sessions'[sid].auth_attempts =
                    sessions[sid].auth_attempts + (IF Increments(upd) THEN 1 ELSE 0)
            /\ sessions'[sid].last_activity = now
            /\ \A other \in SessionIds \ {sid} : sessions'[other] = sessions[other]]_vars

\* a verified session was updated with verified = False and customer_id = None
\* and kept its pending action
C19_Witness ==
    /\ obs.op = "update"
    /\ obs.upd = [verified |-> FALSE, customer_id |-> None]
    /\ Present(sessions, obs.sid)
    /\ ~sessions[obs.sid].verified
    /\ sessions[obs.sid].customer_id = None
    /\ sessions[obs.sid].pending_action = BlockCard("CARD_001")
    /\ sessions[obs.sid].auth_attempts = 1

\* C20: every stored session has a pending action exactly when it awaits a
\* confirmation.
C20_PendingIffAwaiting ==
    \A sid \in SessionIds :
        Present(sessions, sid) =>
            (sessions[sid].pending_action # NoAction
                <=> sessions[sid].awaiting_confirmation)

\* the turn that asked to confirm the block of CARD_001 stored the pending
\* action and awaiting_confirmation
C20_Witness ==
    /\ obs.op = "turn"
    /\ obs.reply = "confirmprompt"
    /\ sessions[obs.sid].pending_action = BlockCard("CARD_001")
    /\ sessions[obs.sid].awaiting_confirmation

\* the handler node of a sensitive flow
HandlerOf(flow) == IF flow = "card_issues" THEN "card_flow" ELSE "account_flow"

\* the last operation was a turn on an unverified session that ended in a
\* sensitive flow with a credential request, and the step is the next turn
\* of the session, which submits an id and a PIN that verify_identity accepts
AcceptedAfterRequest ==
    /\ NextTurnOnSession
    /\ obs.raised = None /\ ~obs.verified
    /\ obs.reply \in {"reqauth", "reqpin", "reqid"}
    /\ sessions[obs.sid].current_flow \in SensitiveFlows
    /\ obs'.creds[1] # None /\ obs'.creds[2] # None
    /\ obs'.call.called /\ obs'.auth.success = "true"

\* C21: the turn that follows a credential request in the sensitive flow F
\* and submits accepted credentials runs F's handler with verified = true
\* and without the classifier, and the session it stores has current_flow =
\* F and original_intent = None.
C21_FlowRestoredAfterAuth ==
    [][AcceptedAfterRequest =>
        /\ RunsNode(HandlerOf(sessions[obs.sid].current_flow))
        /\ obs'.verified
        /\ ~obs'.llm_called
        /\ TurnDone =>
            /\ sessions'[obs'.sid].current_flow = sessions[obs.sid].current_flow
            /\ sessions'[obs'.sid].original_intent = None]_vars

\* C22: from an utterance with a labelled id of 1 to 4 digits followed by a
\* labelled PIN of 4 or more digits, contiguous, spaced or spoken,
\* extract_credentials returns the digits after the id label as id and the
\* first four digits after the pin label as PIN; from an utterance with no
\* digit it returns (None, None).
C22_LabelledPairExtracted ==
    obs.op = "extract" =>
        /\ obs.said.shape = "both"
            => obs.extracted = [id |-> obs.said.id, pin |-> Take(obs.said.pin, 4)]
        /\ obs.said.shape = "none"
            => obs.extracted = [id |-> NoDigits, pin |-> NoDigits]

\* C23: from an utterance with exactly one group of 1 to 4 digits, labelled
\* as id, labelled as pin or bare, extract_credentials returns that group
\* paired with None (as id when labelled id, as PIN when labelled pin), and
\* never as both id and PIN.
C23_SoloPairedWithNone ==
    LET v == IF obs.said.shape = "pin" THEN obs.said.pin ELSE obs.said.id
        asId == [id |-> v, pin |-> NoDigits]
        asPin == [id |-> NoDigits, pin |-> v]
    IN  obs.op = "extract" =>
            /\ obs.said.shape = "id" => obs.extracted = asId
            /\ obs.said.shape = "pin" => obs.extracted = asPin
            /\ obs.said.shape = "bare" => obs.extracted \in {asId, asPin}

\* the raw utterance of the last turn had a digit: one that is left in the
\* sanitized text, or the digits extract_credentials found
SaidDigit == obs.text.digits \/ obs.creds # NoCredentials

\* C24: a turn whose utterance has a banking-intent keyword or a digit is
\* not classified as small talk: the greeting node does not run.
C24_KeywordOrDigitNotSmallTalk ==
    (obs.op = "turn" /\ (obs.text.kw # None \/ SaidDigit)) => ~Ran("greeting")

\* C25: a turn classified as small talk runs intent_router and greeting and
\* nothing else: its reply is the greeting reply, not a credential request;
\* no handler and no classifier runs; block_card is not called and the
\* pending action is not cancelled: the session keeps it.
C25_SmallTalkEndsAtGreeting ==
    [][(obs'.op = "turn" /\ RunsNode("greeting")) =>
        /\ obs'.path = <<"intent_router", "greeting">>
        /\ obs'.raised = None
        /\ obs'.reply \in {"smalltalk", "help"}
        /\ ~obs'.llm_called
        /\ obs'.executed = None
        /\ ~obs'.cancelled
        /\ sessions'[obs'.sid].pending_action = SessionBefore(obs'.sid).pending_action
        /\ sessions'[obs'.sid].awaiting_confirmation
                = SessionBefore(obs'.sid).awaiting_confirmation]_vars

\* "no thanks" was said while the block of a card awaited confirmation, and
\* the pending action is still there
C25_Witness ==
    /\ Ran("greeting")
    /\ obs.text = T_no_thanks
    /\ sessions[obs.sid].verified
    /\ sessions[obs.sid].pending_action # NoAction
    /\ sessions[obs.sid].awaiting_confirmation

\* C26: the conversation_history of every stored session has at most
\* MAX_HISTORY_MESSAGES messages.
C26_HistoryBounded ==
    \A sid \in SessionIds :
        Present(sessions, sid) =>
            sessions[sid].conversation_history.len <= MAX_HISTORY_MESSAGES

\* Requests whose external call may never return: the requests of SpecRace,
\* with the periodic cleanup task running beside them.  The cleanup task is a
\* loop of the program and always gets its turn; the arrival of a request and
\* the return of verify_identity are up to the outside world, and no step of
\* the program abandons a suspended call.
NextHang == RaceTurn \/ RaceStart \/ FinishTurn \/ Sweep

SpecHang == Init /\ [][NextHang]_vars /\ WF_vars(Sweep)

\* C27: every request that is waiting for an external call eventually
\* completes, whether or not the call returns.
C27_TurnCompletes ==
    \A slot \in Slots : (inflight[slot] # Idle) ~> (inflight[slot] = Idle)

\* C28: a turn in which handle_confirmation runs the confirmed pending action
\* ends with a reply to the caller and not with a raised error, also when
\* block_card fails.
C28_BlockFailureAnswered ==
    (obs.op = "turn" /\ obs.executed # None) =>
        (obs.raised = None /\ obs.reply # None)

\* the customer_id a session holds, none for a session that is not stored
CustomerIdOf(ss, sid) == IF Present(ss, sid) THEN ss[sid].customer_id ELSE None

\* the step is a request of session sid whose verify_identity call was made with
\* customer id cid and accepted it with the PIN submitted
AcceptedBy(sid, cid) ==
    /\ obs'.op \in {"turn", "start"} /\ obs'.sid = sid
    /\ obs'.call.called /\ obs'.call.customer_id = cid
    /\ verify_identity(obs'.call.customer_id, obs'.call.pin)
    /\ obs'.auth.success = "true"

\* C29: a stored session that is verified has a customer_id, and a session's
\* customer_id is set or changed only by a turn of that session whose
\* verifier call accepted that id with the PIN submitted.
C29_VerifiedHasAcceptedId ==
    /\ [](\A sid \in SessionIds :
            (Present(sessions, sid) /\ sessions[sid].verified) =>
                sessions[sid].customer_id # None)
    /\ [][\A sid \in SessionIds :
            (/\ CustomerIdOf(sessions', sid) # None
             /\ CustomerIdOf(sessions', sid) # CustomerIdOf(sessions, sid)) =>
                AcceptedBy(sid, CustomerIdOf(sessions', sid))]_vars

\* the stored session sid is verified, has a pending action and awaits its
\* confirmation
AwaitsConfirmation(sid) ==
    /\ Present(sessions, sid)
    /\ sessions[sid].verified
    /\ sessions[sid].pending_action # NoAction
    /\ sessions[sid].awaiting_confirmation

\* the step is a turn of session sid with the text of a given kind and no
\* credentials in it
AnswersWith(sid, yes, no) ==
    /\ obs'.op = "turn" /\ obs'.sid = sid
    /\ obs'.creds = NoCredentials
    /\ obs'.text.st = None
    /\ Affirmative(obs'.text) = yes /\ Negative(obs'.text) = no

\* C30: on a verified session with a pending action that awaits
\* confirmation, whatever turns came before, an affirmative turn executes
\* the pending action and clears it, and a negative turn clears it without
\* executing it.
C30_ConfirmationAnswered ==
    [][\A sid \in Callers :
        AwaitsConfirmation(sid) =>
            /\ AnswersWith(sid, TRUE, FALSE) =>
                    /\ obs'.executed = sessions[sid].pending_action.card_id
                    /\ ~obs'.cancelled
                    /\ sessions'[sid].pending_action = NoAction
            /\ AnswersWith(sid, FALSE, TRUE) =>
                    /\ obs'.executed = None
                    /\ obs'.cancelled
                    /\ sessions'[sid].pending_action = NoAction]_vars

\* the step is a turn of session sid that called verify_identity and got its
\* answer
VerifierAnswered(sid) ==
    /\ obs'.op = "turn" /\ obs'.sid = sid
    /\ obs'.call.called /\ obs'.raised = None
    /\ obs'.auth.success \in {"true", "false"}

\* C31: a turn whose verifier call is accepted stores verified = true, the
\* submitted id as customer_id, auth_attempts = 0 and no pending id; a turn
\* whose call is rejected with a attempts before it stores a + 1, reports
\* remaining_attempts = max(0, MAX_AUTH_ATTEMPTS - (a + 1)), stores locked
\* exactly when that is 0, and leaves verified and customer_id as they were.
C31_VerifierOutcomeStored ==
    [][\A sid \in Callers :
        VerifierAnswered(sid) =>
            LET before == SessionBefore(sid)
                after == sessions'[sid]
                a == before.auth_attempts
            IN  /\ a < MAX_AUTH_ATTEMPTS
                /\ obs'.auth.success = "true" =>
                        /\ after.verified
                        /\ after.customer_id = obs'.call.customer_id
                        /\ after.auth_attempts = 0
                        /\ after.pending_customer_id = None
                /\ obs'.auth.success = "false" =>
                        /\ after.auth_attempts = a + 1
                        /\ obs'.auth.remaining_attempts
                                = Max(0, MAX_AUTH_ATTEMPTS - (a + 1))
                        /\ after.locked <=> (obs'.auth.remaining_attempts = 0)
                        /\ after.verified = before.verified
                        /\ after.customer_id = before.customer_id]_vars

\* an accepted call followed a rejected one on the same session
C31_Witness ==
    /\ obs.op = "turn" /\ obs.call.called /\ obs.auth.success = "true"
    /\ rejections[obs.sid] > 0
    /\ sessions[obs.sid].auth_attempts = 0

\* the fixed order of the categories
FlowOrder ==
    <<"card_issues", "account_servicing", "account_opening",
      "digital_support", "transfers", "account_closure">>

\* the first category of FlowOrder in a set of categories, none for the
\* empty set
FirstInOrder(cats) ==
    IF cats = {} THEN None
    ELSE FlowOrder[CHOOSE i \in 1..Len(FlowOrder) :
                        /\ FlowOrder[i] \in cats
                        /\ \A j \in 1..(i - 1) : FlowOrder[j] \notin cats]

\* C32: when route_intent classifies, the flow is the first category of the
\* fixed order with a keyword in the utterance; the classifier is called
\* only when no category has one; and the flow is one of the six categories
\* or none whatever the classifier answers.
C32_OrderedKeywordClassification ==
    obs.op = "classify" =>
        /\ obs.kws # {} => obs.classified.flow = FirstInOrder(obs.kws)
        /\ obs.classified.llm_called => obs.kws = {}
        /\ obs.classified.flow \in Flows \cup {None}

\* an utterance with keywords of two categories was classified as the
\* earlier one, without the classifier
C32_Witness ==
    /\ obs.op = "classify"
    /\ obs.kws = {"account_servicing", "transfers"}
    /\ obs.classified = [flow |-> "account_servicing", llm_called |-> FALSE]

\* C33: the confirmation stage entered with a pending action and verified =
\* false raises VerificationRequired, neither executes nor cancels the
\* action, and the session keeps its pending_action and its
\* awaiting_confirmation.
C33_UnverifiedConfirmationRaises ==
    [][\A sid \in Callers :
        (/\ obs.op = "enter" /\ obs.sid = sid
         /\ sessions[sid].pending_action # NoAction
         /\ ~sessions[sid].verified) =>
            /\ obs'.raised = "VerificationRequired"
            /\ obs'.executed = None /\ ~obs'.cancelled
            /\ sessions'[sid].pending_action = sessions[sid].pending_action
            /\ sessions'[sid].awaiting_confirmation
                    = sessions[sid].awaiting_confirmation]_vars

\* the stage raised VerificationRequired on an affirmative reply to a pending
\* block of an unverified session
C33_Witness ==
    /\ obs.op = "confirm" /\ obs.raised = "VerificationRequired"
    /\ Affirmative(obs.text)
    /\ ~sessions[obs.sid].verified
    /\ sessions[obs.sid].pending_action = BlockCard("CARD_001")

\* C34: no stored session is locked and verified at once, also when two
\* turns of the session were suspended in the verifier call together.
C34_NeverLockedAndVerified ==
    \A sid \in SessionIds :
        Present(sessions, sid) =>
            ~(sessions[sid].locked /\ sessions[sid].verified)

\* the step is the return of the banking call to the request of a slot that
\* still holds the stored session object, and the request executed a pending
\* action with success
ExecutesOnReturn(slot) ==
    /\ inflight[slot].stage = "graph" /\ ~inflight[slot].detached
    /\ inflight'[slot] = Idle
    /\ inflight[slot].result.executed # None
    /\ inflight[slot].result.raised = None

\* C35: a confirmation prompt leads to at most one execution: a request
\* executes the pending action only while the session still holds it, so
\* that of two overlapping affirmative replies only one executes it.
C35_ExecutedOncePerPrompt ==
    [][\A slot \in Slots :
        ExecutesOnReturn(slot) =>
            sessions[inflight[slot].sid].pending_action # NoAction]_vars

\* the fields of a session that C36 names
CarriedState(session) ==
    <<session.verified, session.pending_action, session.awaiting_confirmation,
      session.current_flow, session.conversation_history>>

\* C36: a turn that started before its session was reset and finishes after
\* the session was created again leaves the new session's verified,
\* pending_action, awaiting_confirmation, current_flow and history as they
\* are.
C36_NothingSurvivesReset ==
    [][\A slot \in Slots :
        (/\ inflight[slot].stage = "graph" /\ inflight[slot].detached
         /\ inflight'[slot] = Idle
         /\ Present(sessions, inflight[slot].sid)) =>
            CarriedState(sessions'[inflight[slot].sid])
                = CarriedState(sessions[inflight[slot].sid])]_vars

\* C37: the first turn of a session whose last activity lies more than the
\* timeout back starts from a fresh session, swept or not: the graph state
\* is unverified, without a flow and without a pending action, and a
\* rejected call of the turn is the first attempt.
C37_TimedOutSessionStartsFresh ==
    [][\A sid \in PastTimeout :
        (obs'.op = "turn" /\ obs'.sid = sid /\ obs'.raised = None) =>
            /\ obs'.verified = (obs'.auth.success = "true")
            /\ obs'.flow = None
            /\ ~obs'.lock_flow
            /\ sessions'[sid].auth_attempts
                    = IF obs'.auth.success = "false" THEN 1 ELSE 0]_vars

\* C38: the confirmation stage, entered verified with a pending action,
\* executes the action on a reply that holds both an affirmative and a
\* negative word, and cancels only on a reply that holds a negative word and
\* no affirmative one.
C38_AffirmativeTestedFirst ==
    [][\A sid \in Callers :
        (/\ obs.op = "enter" /\ obs.sid = sid
         /\ sessions[sid].verified
         /\ sessions[sid].pending_action # NoAction) =>
            /\ (Affirmative(obs.text) /\ Negative(obs.text)) =>
                    /\ obs'.executed = sessions[sid].pending_action.card_id
                    /\ ~obs'.cancelled
            /\ obs'.cancelled =>
                    (Negative(obs'.text) /\ ~Affirmative(obs'.text))]_vars

\* "yes, cancel it" blocked the card
C38_Witness ==
    /\ obs.op = "confirm" /\ obs.text = T_yes_no
    /\ obs.executed = "CARD_001" /\ obs.reply = "blocked"
    /\ sessions[obs.sid].pending_action = NoAction

\* C39: once a session is stored with requires_human = true, every later
\* turn of the session starts with requires_human = true in its graph state
\* and the session keeps requires_human = true for as long as it is stored.
C39_RequiresHumanMonotonic ==
    [][\A sid \in SessionIds :
        (Present(sessions, sid) /\ sessions[sid].requires_human) =>
            /\ Present(sessions', sid) => sessions'[sid].requires_human
            /\ (obs'.op = "turn" /\ obs'.sid = sid) =>
                    BuildState(sessions[sid], obs'.text, obs'.auth).requires_human]_vars

\* a later turn on a session that was handed over to a human before: the
\* turn's own handler asks for no handover, and the session is still marked
C39_Witness ==
    /\ obs.op = "turn" /\ obs.raised = None /\ obs.reply = "stub"
    /\ Present(sessions, obs.sid)
    /\ sessions[obs.sid].requires_human

\* C40: every turn whose graph run returns has exactly one replying stage on
\* its path: the run ends after finitely many nodes and exactly one of them
\* (greeting, the auth-failure or lock message of auth_gate, request_auth,
\* one flow handler, or confirmation) appended an assistant message.
C40_ExactlyOneReply ==
    (obs.op = "turn" /\ obs.path # << >> /\ obs.raised = None) =>
        /\ obs.replies = 1
        /\ obs.reply # None

====
